---------------------------- MODULE Spec2Model ----------------------------
(* CASL II assembler / COMET II emulator / DAP server (f0reachARR/casljs, *)
(* Go edition): a model of the debug session of src/dap.go running the    *)
(* step function of src/emulator.go.                                      *)
EXTENDS Integers, Sequences, FiniteSets, TLC

(***************************************************************************)
(* Program constants (src/main.go)                                         *)
(***************************************************************************)
SYS_IN == 65520
SYS_OUT == 65522
EXIT_USR == 0
EXIT_OVF == 1
EXIT_DVZ == 2
EXIT_ROV == 3
FR_PLUS == 0
FR_ZERO == 1
FR_MINUS == 2
FR_OVER == 4
STACK_TOP == 65280
PC == 0
FR == 1
GR0 == 2
GR7 == 9
SP == 10
MAX_SIGNED == 32767
MIN_SIGNED == -32768
MemSize == 65536

(***************************************************************************)
(* Bounds of the model                                                     *)
(***************************************************************************)
\* number of requests the client sends on one connection
MaxReq == 3
\* number of requests of a client that only launches, sets breakpoints and runs
MaxRunReq == 4
\* stepExec is entered only while PC is at most this (a run can leave the
\* image and walk through the zero words, which are NOPs)
MaxPC == 8

(***************************************************************************)
(* Go integer operators on int (two's complement, any magnitude TLC holds) *)
(***************************************************************************)
RECURSIVE Pow2(_)
Pow2(n) == IF n = 0 THEN 1 ELSE 2 * Pow2(n - 1)

RECURSIVE BitAnd(_, _)
BitAnd(x, y) ==
    IF x = 0 \/ y = 0 THEN 0
    ELSE IF x = -1 THEN y
    ELSE IF y = -1 THEN x
    ELSE 2 * BitAnd(x \div 2, y \div 2) + (IF x % 2 = 1 /\ y % 2 = 1 THEN 1 ELSE 0)

RECURSIVE BitOr(_, _)
BitOr(x, y) ==
    IF x = 0 THEN y
    ELSE IF y = 0 THEN x
    ELSE IF x = -1 \/ y = -1 THEN -1
    ELSE 2 * BitOr(x \div 2, y \div 2) + (IF x % 2 = 1 \/ y % 2 = 1 THEN 1 ELSE 0)

RECURSIVE BitXor(_, _)
BitXor(x, y) ==
    IF x = 0 THEN y
    ELSE IF y = 0 THEN x
    ELSE IF x = -1 THEN -y - 1
    ELSE IF y = -1 THEN -x - 1
    ELSE 2 * BitXor(x \div 2, y \div 2) + (IF x % 2 # y % 2 THEN 1 ELSE 0)

\* x << n and x >> n of Go for 0 <= n (arithmetic right shift)
Shl(x, n) == x * Pow2(n)
Shr(x, n) == x \div Pow2(n)

Mask16(x) == x % 65536

signed(val) == IF val >= 32768 /\ val < 65536 THEN val - 65536 ELSE val

unsigned(val) == IF val >= -32768 /\ val < 0 THEN val + 65536 ELSE val

\* the flag of a value compared as a Go int
getFlagOfInt(val) == IF val < 0 THEN FR_MINUS ELSE IF val = 0 THEN FR_ZERO ELSE FR_PLUS
getFlag(val) ==
    IF BitAnd(val, 32768) # 0 THEN FR_MINUS
    ELSE IF val = 0 THEN FR_ZERO
    ELSE FR_PLUS

(***************************************************************************)
(* Memory: the 0x10000 words of d.memory, kept as the finite map of the    *)
(* non-zero words (every other word is 0).                                 *)
(***************************************************************************)
memGet(memory, pc) ==
    IF pc < 0 \/ pc >= MemSize THEN 0
    ELSE IF pc \in DOMAIN memory THEN memory[pc] ELSE 0

memPut(memory, pc, val) ==
    IF pc < 0 \/ pc >= MemSize THEN memory
    ELSE LET v == Mask16(val)
             D == IF v = 0 THEN DOMAIN memory \ {pc} ELSE DOMAIN memory \cup {pc}
         IN  [a \in D |-> IF a = pc THEN v ELSE memory[a]]

(***************************************************************************)
(* COMET2TBL and parse (src/emulator.go)                                   *)
(***************************************************************************)
COMET2TBL ==
    (0   :> <<"NOP", "op4">>)  @@ (16  :> <<"LD", "op1">>)   @@ (17  :> <<"ST", "op1">>)   @@
    (18  :> <<"LAD", "op1">>)  @@ (20  :> <<"LD", "op5">>)   @@ (32  :> <<"ADDA", "op1">>) @@
    (33  :> <<"SUBA", "op1">>) @@ (34  :> <<"ADDL", "op1">>) @@ (35  :> <<"SUBL", "op1">>) @@
    (36  :> <<"ADDA", "op5">>) @@ (37  :> <<"SUBA", "op5">>) @@ (38  :> <<"ADDL", "op5">>) @@
    (39  :> <<"SUBL", "op5">>) @@ (40  :> <<"MULA", "op1">>) @@ (41  :> <<"DIVA", "op1">>) @@
    (42  :> <<"MULL", "op1">>) @@ (43  :> <<"DIVL", "op1">>) @@ (44  :> <<"MULA", "op5">>) @@
    (45  :> <<"DIVA", "op5">>) @@ (46  :> <<"MULL", "op5">>) @@ (47  :> <<"DIVL", "op5">>) @@
    (48  :> <<"AND", "op1">>)  @@ (49  :> <<"OR", "op1">>)   @@ (50  :> <<"XOR", "op1">>)  @@
    (52  :> <<"AND", "op5">>)  @@ (53  :> <<"OR", "op5">>)   @@ (54  :> <<"XOR", "op5">>)  @@
    (64  :> <<"CPA", "op1">>)  @@ (65  :> <<"CPL", "op1">>)  @@ (68  :> <<"CPA", "op5">>)  @@
    (69  :> <<"CPL", "op5">>)  @@ (80  :> <<"SLA", "op1">>)  @@ (81  :> <<"SRA", "op1">>)  @@
    (82  :> <<"SLL", "op1">>)  @@ (83  :> <<"SRL", "op1">>)  @@ (97  :> <<"JMI", "op2">>)  @@
    (98  :> <<"JNZ", "op2">>)  @@ (99  :> <<"JZE", "op2">>)  @@ (100 :> <<"JUMP", "op2">>) @@
    (101 :> <<"JPL", "op2">>)  @@ (102 :> <<"JOV", "op2">>)  @@ (112 :> <<"PUSH", "op2">>) @@
    (113 :> <<"POP", "op3">>)  @@ (128 :> <<"CALL", "op2">>) @@ (129 :> <<"RET", "op4">>)  @@
    (240 :> <<"SVC", "op2">>)

\* parse: the mnemonic, the operand shape and the size of the word at pc
\* ("DC" for a word whose opcode byte is not in COMET2TBL).  grIsGr is the
\* outcome of stepExec's regular expression `GR[0-7], GR[0-7]` on the operand
\* string parse prints: only op5 prints "GR<gr>, GR<xr>" (decimal), which
\* matches when gr is one digit 0..7 and xr begins with a digit 0..7.
parse(memory, pc) ==
    LET word == memGet(memory, pc)
        inst == word \div 256
        gr   == (word \div 16) % 16
        xr   == word % 16
        known == inst \in DOMAIN COMET2TBL
        type == IF known THEN COMET2TBL[inst][2] ELSE "dc"
    IN  [ inst |-> IF known THEN COMET2TBL[inst][1] ELSE "DC",
          type |-> type,
          size |-> IF type \in {"op1", "op2"} THEN 2 ELSE 1,
          gr |-> gr, xr |-> xr,
          adr |-> memGet(memory, pc + 1),
          grIsGr |-> type = "op5" /\ gr \in 0..7 /\ xr \in (0..7) \cup (10..15) ]

(***************************************************************************)
(* stepExec (src/emulator.go).  st is the 11-slot state (PC, FR, GR0..GR7, *)
(* SP); regs aliases st[GR0..GR7], so a register write is a write to st     *)
(* even when the step then returns an error.  pc, fr and sp are the locals  *)
(* stepExec copies from st on entry and writes back on a normal return.     *)
(* The result is [kind, state, memory]; kind "Panic" is a Go run-time panic *)
(* (index out of range on regs, negative shift count).                      *)
(***************************************************************************)
Reg(st, r) == st[GR0 + r]
SetReg(st, r, v) == [st EXCEPT ![GR0 + r] = v]

Outcome(kind, st, memory) == [kind |-> kind, state |-> st, memory |-> memory]

\* a return that leaves state[SP] as it was
ReturnKeepSP(stop, st, memory, pc, fr, sp) ==
    Outcome(IF stop THEN "AwaitInput" ELSE "Continue", [st EXCEPT ![PC] = pc, ![FR] = fr], memory)
\* "Update state" and return stopFlag, nil
Return(stop, st, memory, pc, fr, sp) ==
    Outcome(IF stop THEN "AwaitInput" ELSE "Continue",
            [st EXCEPT ![PC] = pc, ![FR] = fr, ![SP] = sp], memory)

OverSigned(v) == IF v > MAX_SIGNED \/ v < MIN_SIGNED THEN FR_OVER ELSE 0
OverLogical(v) == IF v > 65535 \/ v < 0 THEN FR_OVER ELSE 0

\* Go's integer division truncates toward zero
GoDiv(a, b) ==
    LET q == (IF a < 0 THEN -a ELSE a) \div (IF b < 0 THEN -b ELSE b)
    IN  IF (a < 0) = (b < 0) THEN q ELSE -q

ArithOp(inst, a, b) ==
    CASE inst \in {"ADDA", "ADDL"} -> a + b
      [] inst \in {"SUBA", "SUBL"} -> a - b
      [] inst \in {"MULA", "MULL"} -> a * b
      [] inst \in {"DIVA", "DIVL"} -> GoDiv(a, b)

IsSignedOp(inst) == inst \in {"ADDA", "SUBA", "MULA", "DIVA"}
Over(inst, v) == IF IsSignedOp(inst) THEN OverSigned(v) ELSE OverLogical(v)

\* the r,adr form of ADDA SUBA ADDL SUBL MULA MULL DIVA DIVL
ArithMem(inst, st, memory, gr, eadr, pc, sp) ==
    LET s1 == IF IsSignedOp(inst) THEN SetReg(st, gr, signed(Reg(st, gr))) ELSE st
        m  == memGet(memory, eadr)
    IN  IF inst \in {"DIVA", "DIVL"} /\ m = 0
        THEN Return(FALSE, s1, memory, pc + 2, BitOr(FR_OVER, FR_ZERO), sp)
        ELSE LET v  == ArithOp(inst, Reg(s1, gr), m)
                 s2 == SetReg(s1, gr, Mask16(v))
             IN  Return(FALSE, s2, memory, pc + 2,
                        BitOr(getFlag(Reg(s2, gr)), Over(inst, v)), sp)

\* the r1,r2 form; ADDL and SUBL leave regs[xr] alone, the others mask it
ArithReg(inst, st, memory, gr, xr, pc, sp) ==
    LET s1 == IF IsSignedOp(inst) THEN SetReg(st, gr, signed(Reg(st, gr))) ELSE st
        s2 == IF IsSignedOp(inst) THEN SetReg(s1, xr, signed(Reg(s1, xr))) ELSE s1
    IN  IF inst \in {"DIVA", "DIVL"} /\ Reg(s2, xr) = 0
        THEN Return(FALSE, s2, memory, pc + 1, BitOr(FR_OVER, FR_ZERO), sp)
        ELSE LET v  == ArithOp(inst, Reg(s2, gr), Reg(s2, xr))
                 s3 == SetReg(s2, gr, Mask16(v))
                 s4 == IF inst \in {"ADDL", "SUBL"} THEN s3
                       ELSE SetReg(s3, xr, Mask16(Reg(s3, xr)))
             IN  Return(FALSE, s4, memory, pc + 1,
                        BitOr(getFlag(Reg(s4, gr)), Over(inst, v)), sp)

LogicOp(inst, a, b) ==
    CASE inst = "AND" -> BitAnd(a, b)
      [] inst = "OR"  -> BitOr(a, b)
      [] inst = "XOR" -> BitXor(a, b)

Clamp(v) == IF v > MAX_SIGNED THEN MAX_SIGNED ELSE IF v < MIN_SIGNED THEN MIN_SIGNED ELSE v

\* the low w bits of Go's x << n
ShlLow(x, n, w) == IF n >= w THEN 0 ELSE (x % Pow2(w - n)) * Pow2(n)

\* ofr of SRA and SRL: regs[gr] & (1 << (eadr-1)), then << (2 - (eadr-1));
\* defined when both shift counts are non-negative, i.e. eadr in 1..3
ShiftOutRight(x, eadr) == Shl(BitAnd(x, Pow2(eadr - 1)), 2 - (eadr - 1))

\* a stack that may grow onto the word at addressMax
StackFullBelow(sp, amax) == sp < amax
\* the test of PUSH and CALL on the decremented sp
StackFull(sp, amax) == sp <= amax

\* a stack taken as empty once sp reaches STACK_TOP
StackEmptyAt(sp) == sp >= STACK_TOP
\* the test of POP and RET on the incremented sp
StackEmpty(sp) == sp > STACK_TOP

UsesGr(inst) ==
    inst \in {"LD", "ST", "LAD", "ADDA", "SUBA", "ADDL", "SUBL", "MULA", "MULL",
              "DIVA", "DIVL", "AND", "OR", "XOR", "CPA", "CPL", "SLA", "SRA",
              "SLL", "SRL", "POP"}

\* stepExec with its entry copies pc, fr, sp given; amax is the package
\* variable addressMax
StepExecFrom(memory, st, amax, pc, fr, sp) ==
    LET p    == parse(memory, pc)
        inst == p.inst
        instVal == memGet(memory, pc)
        gr   == (instVal \div 16) % 16
        xr   == instVal % 16
        adr  == memGet(memory, pc + 1)
        eadr == Mask16(IF xr >= 1 /\ xr <= 7 THEN adr + Reg(st, xr) ELSE adr)
        rr   == p.grIsGr
    IN  IF (UsesGr(inst) /\ gr > 7) \/ (rr /\ xr > 7) THEN Outcome("Panic", st, memory)
        ELSE CASE inst = "LD" ->
                 IF ~rr
                 THEN LET s1 == SetReg(st, gr, memGet(memory, eadr))
                      IN  Return(FALSE, s1, memory, pc + 2, getFlag(Reg(s1, gr)), sp)
                 ELSE LET s1 == SetReg(st, gr, Reg(st, xr))
                      IN  Return(FALSE, s1, memory, pc + 1, getFlag(Reg(s1, gr)), sp)
          [] inst = "ST" ->
                 Return(FALSE, st, memPut(memory, eadr, Reg(st, gr)), pc + 2, fr, sp)
          [] inst = "LAD" ->
                 Return(FALSE, SetReg(st, gr, eadr), memory, pc + 2, fr, sp)
          [] inst \in {"ADDA", "SUBA", "ADDL", "SUBL", "MULA", "MULL", "DIVA", "DIVL"} ->
                 IF ~rr THEN ArithMem(inst, st, memory, gr, eadr, pc, sp)
                 ELSE ArithReg(inst, st, memory, gr, xr, pc, sp)
          [] inst \in {"AND", "OR", "XOR"} ->
                 IF ~rr
                 THEN LET s1 == SetReg(st, gr, LogicOp(inst, Reg(st, gr), memGet(memory, eadr)))
                      IN  Return(FALSE, s1, memory, pc + 2, getFlag(Reg(s1, gr)), sp)
                 ELSE LET s1 == SetReg(st, gr, LogicOp(inst, Reg(st, gr), Reg(st, xr)))
                      IN  Return(FALSE, s1, memory, pc + 1, getFlag(Reg(s1, gr)), sp)
          [] inst = "CPA" ->
                 IF ~rr
                 THEN Return(FALSE, st, memory, pc + 2,
                        getFlag(unsigned(Clamp(signed(Reg(st, gr)) - signed(memGet(memory, eadr))))), sp)
                 ELSE Return(FALSE, st, memory, pc + 1,
                        getFlag(unsigned(Clamp(signed(Reg(st, gr)) - signed(Reg(st, xr))))), sp)
          [] inst = "CPL" ->
                 IF ~rr
                 THEN Return(FALSE, st, memory, pc + 2,
                        getFlag(unsigned(Clamp(Reg(st, gr) - memGet(memory, eadr)))), sp)
                 ELSE Return(FALSE, st, memory, pc + 1,
                        getFlag(unsigned(Clamp(Reg(st, gr) - Reg(st, xr)))), sp)
          [] inst = "SLA" ->
                 LET val == BitAnd(Reg(st, gr), 32768)
                     low == ShlLow(Reg(st, gr), eadr, 16)
                     ofr == Shr(BitAnd(low, 32768), 13)
                     s1  == SetReg(st, gr, Mask16(BitOr(low, val)))
                 IN  Return(FALSE, s1, memory, pc + 2, BitOr(getFlag(Reg(s1, gr)), ofr), sp)
          [] inst = "SRA" ->
                 IF eadr < 1 \/ eadr > 3 THEN Outcome("Panic", st, memory)
                 ELSE LET val == Reg(st, gr)
                          ofr == ShiftOutRight(val, eadr)
                          res == IF BitAnd(val, 32768) # 0
                                 THEN Shr(BitAnd(val, 32767), eadr)
                                      + BitXor(Shr(32767, eadr), 65535)
                                 ELSE Shr(val, eadr)
                          s1  == SetReg(st, gr, res)
                      IN  Return(FALSE, s1, memory, pc + 2, BitOr(getFlag(Reg(s1, gr)), ofr), sp)
          [] inst = "SLL" ->
                 LET low == ShlLow(Reg(st, gr), eadr, 17)
                     ofr == Shr(BitAnd(low, 65536), 14)
                     s1  == SetReg(st, gr, Mask16(low))
                 IN  Return(FALSE, s1, memory, pc + 2, BitOr(getFlag(Reg(s1, gr)), ofr), sp)
          [] inst = "SRL" ->
                 IF eadr < 1 \/ eadr > 3 THEN Outcome("Panic", st, memory)
                 ELSE LET ofr == ShiftOutRight(Reg(st, gr), eadr)
                          s1  == SetReg(st, gr, Shr(Reg(st, gr), eadr))
                      IN  Return(FALSE, s1, memory, pc + 2, BitOr(getFlag(Reg(s1, gr)), ofr), sp)
          [] inst = "JMI" ->
                 Return(FALSE, st, memory,
                        IF BitAnd(fr, FR_MINUS) = FR_MINUS THEN eadr ELSE pc + 2, fr, sp)
          [] inst = "JNZ" ->
                 Return(FALSE, st, memory,
                        IF BitAnd(fr, FR_ZERO) # FR_ZERO THEN eadr ELSE pc + 2, fr, sp)
          [] inst = "JZE" ->
                 Return(FALSE, st, memory,
                        IF BitAnd(fr, FR_ZERO) = FR_ZERO THEN eadr ELSE pc + 2, fr, sp)
          [] inst = "JUMP" ->
                 Return(FALSE, st, memory, eadr, fr, sp)
          [] inst = "JPL" ->
                 Return(FALSE, st, memory,
                        IF BitAnd(fr, FR_MINUS) # FR_MINUS /\ BitAnd(fr, FR_ZERO) # FR_ZERO
                        THEN eadr ELSE pc + 2, fr, sp)
          [] inst = "JOV" ->
                 Return(FALSE, st, memory,
                        IF BitAnd(fr, FR_OVER) # 0 THEN eadr ELSE pc + 2, fr, sp)
          [] inst = "PUSH" ->
                 IF StackFull(sp - 1, amax) THEN Outcome("StackOverflow", st, memory)
                 ELSE Return(FALSE, st, memPut(memory, sp - 1, eadr), pc + 2, fr, sp - 1)
          [] inst = "POP" ->
                 LET s1 == SetReg(st, gr, memGet(memory, sp))
                 IN  IF StackEmpty(sp + 1) THEN Outcome("StackUnderflow", s1, memory)
                     ELSE Return(FALSE, s1, memory, pc + 1, fr, sp + 1)
          [] inst = "CALL" ->
                 IF StackFull(sp - 1, amax) THEN Outcome("StackOverflow", st, memory)
                 ELSE Return(FALSE, st, memPut(memory, sp - 1, pc + 2), eadr, fr, sp - 1)
          [] inst = "RET" ->
                 IF StackEmpty(sp + 1) THEN Outcome("ProgramFinished", st, memory)
                 ELSE Return(FALSE, st, memory, memGet(memory, sp), fr, sp + 1)
          [] inst = "SVC" ->
                 CASE eadr = SYS_IN  -> Return(TRUE, st, memory, pc, fr, sp)
                   [] eadr = SYS_OUT -> Return(FALSE, st, memory, pc + 2, fr, sp)
                   [] eadr \in {EXIT_USR, EXIT_OVF, EXIT_DVZ, EXIT_ROV} ->
                          Outcome("ProgramFinished", st, memory)
                   [] OTHER -> Return(FALSE, st, memory, pc, fr, sp)
          [] inst = "NOP" ->
                 Return(FALSE, st, memory, pc + 1, fr, sp)
          [] OTHER -> Outcome("IllegalInstruction", st, memory)

\* stepExec taking the stack as empty on entry, whatever state[SP] holds
stepExecFromTop(memory, st, amax) == StepExecFrom(memory, st, amax, st[PC], st[FR], STACK_TOP)
stepExec(memory, st, amax) == StepExecFrom(memory, st, amax, st[PC], st[FR], st[SP])

(***************************************************************************)
(* Programs a launch request may name, with what assemble (src/assembler.go)*)
(* returns for them.  Lines are numbered from 1.                            *)
(*   "add":   MAIN START / LAD GR1,5 / LAD GR2,7 / ADDA GR1,GR2 / RET / END  *)
(*   "loop":  MAIN START / LOOP JUMP LOOP / END                              *)
(*   "in":    MAIN START / SVC #FFF0 / END                                   *)
(*   "pop":   MAIN START / POP GR1 / END                                     *)
(*   "bad":   MAIN START / RET          (no END: pass1 fails)                *)
(*   "push":  MAIN START / PUSH 0 / POP GR1 / RET / END  (launched only in   *)
(*            the session that shares the process with another connection)  *)
(* image is comet2bin (word i+1 of the sequence is address i), lines the    *)
(* Line of asmState.memory[address], start the value of the start label,    *)
(* addressMax the cursor pass1 leaves in the package variable.              *)
(***************************************************************************)
ProgramNames == {"add", "loop", "in", "pop", "bad"}

\* every source assembling
assembleAny(program) ==
    [ok |-> TRUE, image |-> <<33024>>, lines |-> <<2>>, start |-> 0, addressMax |-> 1]
assemble(program) ==
    CASE program = "add" ->
           [ok |-> TRUE, image |-> <<4624, 5, 4640, 7, 9234, 33024>>,
            lines |-> <<2, 2, 3, 3, 4, 5>>, start |-> 0, addressMax |-> 6]
      [] program = "loop" ->
           [ok |-> TRUE, image |-> <<25600, 0>>,
            lines |-> <<2, 2>>, start |-> 0, addressMax |-> 2]
      [] program = "in" ->
           [ok |-> TRUE, image |-> <<61440, 65520>>,
            lines |-> <<2, 2>>, start |-> 0, addressMax |-> 2]
      [] program = "pop" ->
           [ok |-> TRUE, image |-> <<28944>>,
            lines |-> <<2>>, start |-> 0, addressMax |-> 1]
      [] program = "push" ->
           [ok |-> TRUE, image |-> <<28672, 0, 28944, 33024>>,
            lines |-> <<2, 2, 3, 4>>, start |-> 0, addressMax |-> 4]
      [] OTHER ->
           [ok |-> FALSE, image |-> <<>>, lines |-> <<>>, start |-> 0, addressMax |-> 0]

\* d.memory = make([]uint16, 0x10000); copy(d.memory, comet2bin)
LoadImage(image) ==
    [a \in {i - 1 : i \in {j \in 1..Len(image) : image[j] # 0}} |-> image[a + 1]]

\* a state with every slot 0
LaunchStateZero(startAddress) == [i \in 0..10 |-> 0]
\* d.state of handleLaunch
LaunchState(startAddress) ==
    [i \in 0..10 |-> IF i = PC THEN startAddress ELSE IF i = SP THEN STACK_TOP ELSE 0]

(***************************************************************************)
(* The debug session of one connection (src/dap.go).                       *)
(*                                                                         *)
(* Fields of DAPServer: seq, memory, state, breakpoints, running,           *)
(* stopOnEntry, terminated, asmState, sourceFile.  d.state is <<>> while    *)
(* nil, asmState is "nil" or the program assembled.  addressMax is the      *)
(* package variable of src/main.go.                                        *)
(*                                                                         *)
(* thr[RECV] is the goroutine of Start (the receiver); thr[r], r >= 1, is   *)
(* the goroutine the handler of request r started with `go` (a handler      *)
(* starts at most one).  A handler runs on the receiver and is interleaved  *)
(* with those goroutines at its calls of sendMessage, so it is modelled as  *)
(* the step that reads the request and does the handler's assignments,      *)
(* followed by the steps of its sends (todo).                               *)
(*                                                                         *)
(* msgs holds the Response/Event values sendResponse and sendEvent built;   *)
(* wire holds the conn.Write calls that reached the socket, each            *)
(* <<message, "header" or "content">>, and last is the latest of them.      *)
(* Writes are never undone, so "x was written before y" is: y on the wire   *)
(* implies x on the wire, in every state.                                   *)
(***************************************************************************)
VARIABLES seq, memory, state, breakpoints, running, stopOnEntry, terminated,
          asmState, sourceFile, addressMax,
          thr, nreq, budget, vm, asmCall, msgs, wire, last, connClosed, crashed

vars == <<seq, memory, state, breakpoints, running, stopOnEntry, terminated,
          asmState, sourceFile, addressMax,
          thr, nreq, budget, vm, asmCall, msgs, wire, last, connClosed, crashed>>

dapFields == <<memory, state, breakpoints, running, stopOnEntry, terminated,
               asmState, sourceFile, addressMax>>

RECV == 0

\* what a handler or goroutine still has to send
Resp(command, success, body) ==
    [type |-> "response", name |-> command, success |-> success, reason |-> "", body |-> body]
Evt(event, reason, description) ==
    [type |-> "event", name |-> event, success |-> TRUE, reason |-> reason,
     body |-> description]
Go(kind) ==
    [type |-> "go", name |-> kind, success |-> TRUE, reason |-> "", body |-> <<>>]

NoMsg == [type |-> "none"]

Thread(kind, pc, cause, todo) ==
    [kind |-> kind, pc |-> pc, cause |-> cause, todo |-> todo, msg |-> NoMsg,
     snap |-> <<>>, inst |-> "", old |-> <<>>]

\* NewDAPServer, and Start about to read the first message
Init ==
    /\ seq = 1
    /\ memory = <<>>
    /\ state = <<>>
    /\ breakpoints = {}
    /\ running = FALSE
    /\ stopOnEntry = FALSE
    /\ terminated = FALSE
    /\ asmState = "nil"
    /\ sourceFile = ""
    /\ addressMax = 0
    /\ thr = (RECV :> Thread("recv", "read", 0, <<>>))
    /\ nreq = 0
    /\ budget = MaxReq
    /\ vm = <<>>
    /\ asmCall = <<>>
    /\ msgs = {}
    /\ wire = {}
    /\ last = <<>>
    /\ connClosed = FALSE
    /\ crashed = FALSE

\* a `go` statement at the head of a todo list starts its goroutine at once;
\* the thread then goes on to its next send, or is finished with them
Sends(todo) == IF todo # <<>> /\ Head(todo).type = "go" THEN Tail(todo) ELSE todo

\* thread t continues with todo
Continue(t, rec, todo) ==
    LET rest == Sends(todo)
        me   == [rec EXCEPT !.todo = rest, !.msg = NoMsg,
                            !.pc = IF rest # <<>> THEN "send"
                                   ELSE IF rec.kind = "recv" THEN "read" ELSE "done"]
    IN  IF rest # todo
        THEN [thr EXCEPT ![t] = me] @@ (rec.cause :> Thread(Head(todo).name, "start", rec.cause, <<>>))
        ELSE [thr EXCEPT ![t] = me]

NextSeqStale(s) == s
\* d.seq++ under d.mu
NextSeq(s) == s + 1

\* sendResponse / sendEvent up to d.mu.Unlock(): take d.seq, increment it and
\* build the message
SendSeq(t) ==
    /\ ~crashed
    /\ thr[t].pc = "send"
    /\ LET op == Head(thr[t].todo)
           m  == [type |-> op.type, seq |-> seq, name |-> op.name,
                  request_seq |-> IF op.type = "response" THEN thr[t].cause ELSE 0,
                  success |-> op.success, reason |-> op.reason, body |-> op.body,
                  cause |-> thr[t].cause, by |-> t]
       IN  /\ msgs' = msgs \cup {m}
           /\ thr' = [thr EXCEPT ![t].pc = "header", ![t].msg = m]
    /\ seq' = NextSeq(seq)
    /\ UNCHANGED <<dapFields, nreq, wire, last, connClosed, budget, vm, asmCall, crashed>>

\* sendMessage: d.conn.Write(header); on a closed connection Write fails and
\* sendMessage returns without writing the content
WriteHeader(t) ==
    /\ ~crashed
    /\ thr[t].pc = "header"
    /\ IF connClosed
       THEN /\ UNCHANGED <<wire, last>>
            /\ thr' = Continue(t, thr[t], Tail(thr[t].todo))
       ELSE /\ wire' = wire \cup {<<thr[t].msg, "header">>}
            /\ last' = <<thr[t].msg, "header">>
            /\ thr' = [thr EXCEPT ![t].pc = "content"]
    /\ UNCHANGED <<seq, dapFields, nreq, msgs, connClosed, budget, vm, asmCall, crashed>>

\* sendMessage: d.conn.Write(content)
WriteContent(t) ==
    /\ ~crashed
    /\ thr[t].pc = "content"
    /\ IF connClosed
       THEN UNCHANGED <<wire, last>>
       ELSE /\ wire' = wire \cup {<<thr[t].msg, "content">>}
            /\ last' = <<thr[t].msg, "content">>
    /\ thr' = Continue(t, thr[t], Tail(thr[t].todo))
    /\ UNCHANGED <<seq, dapFields, nreq, msgs, connClosed, budget, vm, asmCall, crashed>>

(***************************************************************************)
(* Start and handleMessage: the receiver reads the next request (the        *)
(* client may send any command at any time) and runs its handler.  The      *)
(* request's seq is its number on the connection.                           *)
(***************************************************************************)
CanRead == ~crashed /\ thr[RECV].pc = "read" /\ ~terminated /\ nreq < budget

\* the handler's sends and go statements, in program order
Dispatch(todo) ==
    /\ nreq' = nreq + 1
    /\ thr' = Continue(RECV, [thr[RECV] EXCEPT !.cause = nreq + 1], todo)
    /\ UNCHANGED <<seq, msgs, wire, last, connClosed, budget, vm, asmCall>>

\* a handler that indexes d.state while it is nil panics; the panic is not
\* recovered and ends the process
Panic ==
    /\ crashed' = TRUE
    /\ UNCHANGED <<seq, dapFields, thr, nreq, msgs, wire, last, connClosed, budget, vm, asmCall>>

handleInitialize ==
    /\ CanRead
    /\ Dispatch(<<Resp("initialize", TRUE, <<>>), Evt("initialized", "", "")>>)
    /\ UNCHANGED <<dapFields, crashed>>

\* d.memory and d.state are assigned new slices: a stepExec call in flight
\* keeps the slices it was called with, which nothing else refers to any more
Detached(threads) ==
    [t \in DOMAIN threads |->
        IF threads[t].pc = "inStep" /\ threads[t].old = <<>>
        THEN [threads[t] EXCEPT !.old = <<memory, state>>]
        ELSE threads[t]]

LaunchPrograms == ProgramNames \cup {"missing"}
StopOnEntryArgs == {"absent", "true", "false"}

LaunchOf(programs) ==
    /\ CanRead
    /\ \E program \in programs, soe \in StopOnEntryArgs :
         IF program = "missing"
         THEN /\ Dispatch(<<Resp("launch", FALSE, "Missing 'program' argument")>>)
              /\ UNCHANGED <<dapFields, crashed>>
         ELSE LET a == assemble(program)
              IN  /\ sourceFile' = program
                  /\ stopOnEntry' = IF soe = "absent" THEN stopOnEntry ELSE (soe = "true")
                  /\ IF ~a.ok
                     THEN /\ Dispatch(<<Resp("launch", FALSE, "Assembly failed")>>)
                          /\ UNCHANGED <<asmState, memory, state, addressMax>>
                     ELSE /\ asmState' = program
                          /\ addressMax' = a.addressMax
                          /\ memory' = LoadImage(a.image)
                          /\ state' = LaunchState(a.start)
                          /\ nreq' = nreq + 1
                          /\ thr' = Detached(Continue(RECV, [thr[RECV] EXCEPT !.cause = nreq + 1],
                                                      <<Resp("launch", TRUE, <<>>)>>))
                          /\ UNCHANGED <<seq, msgs, wire, last, connClosed, budget, vm, asmCall>>
                  /\ UNCHANGED <<breakpoints, running, terminated, crashed>>

handleLaunch == LaunchOf(LaunchPrograms)

handleAttach ==
    /\ CanRead
    /\ Dispatch(<<Resp("attach", FALSE, <<>>)>>)
    /\ UNCHANGED <<dapFields, crashed>>

\* asmState.memory[address].Line of the program assembled last
LineOf(asm, address) == assemble(asm).lines[address + 1]
Addresses(asm) == IF asm = "nil" THEN {} ELSE {i - 1 : i \in 1..Len(assemble(asm).lines)}

\* findAddressForLine ranges over the map asmState.memory and returns the
\* first address it meets whose Line is line: Go leaves the order of a map
\* range unspecified, so any such address can be the result
findAddressForLine(asm, line) ==
    IF asm = "nil" THEN {-1}
    ELSE LET hits == {a \in Addresses(asm) : LineOf(asm, a) = line}
         IN  IF hits = {} THEN {-1} ELSE hits

BreakpointArgs == {<<>>, <<2>>, <<4>>, <<3, 6>>}

handleSetBreakpoints ==
    /\ CanRead
    /\ \E lines \in BreakpointArgs :
         \E address \in [1..Len(lines) -> {-1} \cup Addresses(asmState)] :
           /\ \A i \in 1..Len(lines) : address[i] \in findAddressForLine(asmState, lines[i])
           /\ breakpoints' = {address[i] : i \in {j \in 1..Len(lines) : address[j] >= 0}}
           /\ Dispatch(<<Resp("setBreakpoints", TRUE,
                   [i \in 1..Len(lines) |-> [verified |-> address[i] >= 0, line |-> lines[i]]])>>)
    /\ UNCHANGED <<memory, state, running, stopOnEntry, terminated, asmState,
                   sourceFile, addressMax, crashed>>

handleConfigurationDone ==
    /\ CanRead
    /\ Dispatch(<<Resp("configurationDone", TRUE, <<>>),
                  IF stopOnEntry THEN Evt("stopped", "entry", "") ELSE Go("run")>>)
    /\ UNCHANGED <<dapFields, crashed>>

handleThreads ==
    /\ CanRead
    /\ Dispatch(<<Resp("threads", TRUE, <<>>)>>)
    /\ UNCHANGED <<dapFields, crashed>>

findLineForAddress(asm, address) ==
    IF asm = "nil" THEN 0
    ELSE IF address \in Addresses(asm) THEN LineOf(asm, address) ELSE 0

handleStackTrace ==
    /\ CanRead
    /\ IF state = <<>> THEN Panic
       ELSE /\ Dispatch(<<Resp("stackTrace", TRUE, <<findLineForAddress(asmState, state[PC])>>)>>)
            /\ UNCHANGED <<dapFields, crashed>>

handleScopes ==
    /\ CanRead
    /\ Dispatch(<<Resp("scopes", TRUE, <<>>)>>)
    /\ UNCHANGED <<dapFields, crashed>>

handleVariables ==
    /\ CanRead
    /\ IF state = <<>> THEN Panic
       ELSE /\ Dispatch(<<Resp("variables", TRUE, state)>>)
            /\ UNCHANGED <<dapFields, crashed>>

\* the other order of the two statements of handleContinue
handleContinueGoFirst == <<Go("run"), Resp("continue", TRUE, <<>>)>>
\* handleContinue: sendResponse, then go d.runProgram()
handleContinueSends == <<Resp("continue", TRUE, <<>>), Go("run")>>

handleContinue ==
    /\ CanRead
    /\ Dispatch(handleContinueSends)
    /\ UNCHANGED <<dapFields, crashed>>

handleNext ==
    /\ CanRead
    /\ Dispatch(<<Resp("next", TRUE, <<>>), Go("next")>>)
    /\ UNCHANGED <<dapFields, crashed>>

\* handleStepIn calls handleNext, which answers with command "next"
handleStepIn ==
    /\ CanRead
    /\ Dispatch(<<Resp("next", TRUE, <<>>), Go("next")>>)
    /\ UNCHANGED <<dapFields, crashed>>

handleStepOut ==
    /\ CanRead
    /\ Dispatch(<<Resp("stepOut", TRUE, <<>>), Go("stepOut")>>)
    /\ UNCHANGED <<dapFields, crashed>>

handlePause ==
    /\ CanRead
    /\ running' = FALSE
    /\ Dispatch(<<Resp("pause", TRUE, <<>>), Evt("stopped", "pause", "")>>)
    /\ UNCHANGED <<memory, state, breakpoints, stopOnEntry, terminated, asmState,
                   sourceFile, addressMax, crashed>>

handleDisconnect ==
    /\ CanRead
    /\ terminated' = TRUE
    /\ Dispatch(<<Resp("disconnect", TRUE, <<>>), Evt("terminated", "", "")>>)
    /\ UNCHANGED <<memory, state, breakpoints, running, stopOnEntry, asmState,
                   sourceFile, addressMax, crashed>>

handleTerminate ==
    /\ CanRead
    /\ terminated' = TRUE
    /\ Dispatch(<<Resp("terminate", TRUE, <<>>), Evt("terminated", "", "")>>)
    /\ UNCHANGED <<memory, state, breakpoints, running, stopOnEntry, asmState,
                   sourceFile, addressMax, crashed>>

\* the default case of handleMessage
handleUnknown ==
    /\ CanRead
    /\ Dispatch(<<Resp("unknown", FALSE, <<>>)>>)
    /\ UNCHANGED <<dapFields, crashed>>

\* Start returning without the deferred d.conn.Close()
StartReturnOpen ==
    /\ ~crashed
    /\ thr[RECV].pc = "read"
    /\ terminated
    /\ thr' = [thr EXCEPT ![RECV].pc = "exit"]
    /\ UNCHANGED <<seq, dapFields, nreq, msgs, wire, last, connClosed, budget, vm, asmCall, crashed>>
\* Start: the loop ends once d.terminated is set, and the deferred
\* d.conn.Close() runs
StartReturn ==
    /\ ~crashed
    /\ thr[RECV].pc = "read"
    /\ terminated
    /\ thr' = [thr EXCEPT ![RECV].pc = "exit"]
    /\ connClosed' = TRUE
    /\ UNCHANGED <<seq, dapFields, nreq, budget, vm, asmCall, msgs, wire, last, crashed>>

\* Start: readMessage fails (the client closed the connection)
ReadError ==
    /\ ~crashed
    /\ thr[RECV].pc = "read"
    /\ ~terminated
    /\ thr' = [thr EXCEPT ![RECV].pc = "exit"]
    /\ connClosed' = TRUE
    /\ UNCHANGED <<seq, dapFields, nreq, budget, vm, asmCall, msgs, wire, last, crashed>>

(***************************************************************************)
(* The goroutines started by the handlers.  A call of stepExec is two       *)
(* steps: its entry, which copies pc, fr and sp out of d.state, and the     *)
(* rest, which works on the registers through the alias and writes the      *)
(* copies back; nothing keeps another goroutine from stepping in between.   *)
(***************************************************************************)
Goroutines == DOMAIN thr \ {RECV}

Snapshot == <<state[PC], state[FR], state[SP]>>

\* the step of goroutine t, from the copies it took on entry
StepResult(t) ==
    IF thr[t].old = <<>>
    THEN StepExecFrom(memory, state, addressMax, thr[t].snap[1], thr[t].snap[2], thr[t].snap[3])
    ELSE StepExecFrom(thr[t].old[1], thr[t].old[2], addressMax,
                      thr[t].snap[1], thr[t].snap[2], thr[t].snap[3])

\* the writes of the step reach d.memory and d.state unless a launch replaced
\* them during the call
StepWrites(t, r) ==
    IF thr[t].old = <<>>
    THEN memory' = r.memory /\ state' = r.state
    ELSE UNCHANGED <<memory, state>>

IsError(kind) ==
    kind \in {"ProgramFinished", "StackOverflow", "StackUnderflow", "IllegalInstruction"}

\* every outcome reported as an exception
runProgramEventException(kind) == Evt("stopped", "exception", kind)
\* runProgram: the event sent for the outcome of the step that ends the run
runProgramEvent(kind) ==
    IF kind = "ProgramFinished" THEN Evt("terminated", "", "")
    ELSE IF IsError(kind) THEN Evt("stopped", "exception", kind)
    ELSE Evt("stopped", "pause", "Waiting for input (use stdin)")

\* every outcome reported as a step
nextEventStep(kind) == Evt("stopped", "step", "")
\* the goroutine of handleNext: the event sent for the outcome of its step
nextEvent(kind) ==
    IF IsError(kind) THEN Evt("stopped", "exception", kind)
    ELSE IF kind = "AwaitInput" THEN Evt("stopped", "pause", "Waiting for input")
    ELSE Evt("stopped", "step", "")

\* runProgram: d.running = true
RunStart(t) ==
    /\ ~crashed
    /\ thr[t].kind = "run" /\ thr[t].pc = "start"
    /\ running' = TRUE
    /\ thr' = [thr EXCEPT ![t].pc = "loop"]
    /\ UNCHANGED <<seq, memory, state, breakpoints, stopOnEntry, terminated, asmState,
                   sourceFile, addressMax, nreq, msgs, wire, last, connClosed, budget, vm, asmCall, crashed>>

\* runProgram: the loop condition, the breakpoint check and the entry of
\* stepExec
RunLoop(t) ==
    /\ ~crashed
    /\ thr[t].kind = "run" /\ thr[t].pc = "loop"
    /\ IF ~running
       THEN /\ thr' = [thr EXCEPT ![t].pc = "done"]
            /\ UNCHANGED <<running, crashed>>
       ELSE IF state = <<>>
       THEN /\ crashed' = TRUE
            /\ UNCHANGED <<running, thr>>
       ELSE IF state[PC] \in breakpoints
       THEN /\ running' = FALSE
            /\ thr' = Continue(t, thr[t], <<Evt("stopped", "breakpoint", "")>>)
            /\ UNCHANGED crashed
       ELSE /\ state[PC] <= MaxPC
            /\ thr' = [thr EXCEPT ![t].pc = "inStep", ![t].snap = Snapshot]
            /\ UNCHANGED <<running, crashed>>
    /\ UNCHANGED <<seq, memory, state, breakpoints, stopOnEntry, terminated, asmState,
                   sourceFile, addressMax, nreq, msgs, wire, last, connClosed, budget, vm, asmCall>>

\* runProgram: stepExec returns
RunStep(t) ==
    /\ ~crashed
    /\ thr[t].kind = "run" /\ thr[t].pc = "inStep"
    /\ LET r == StepResult(t)
       IN  IF r.kind = "Panic"
           THEN /\ crashed' = TRUE
                /\ UNCHANGED <<memory, state, running, thr>>
           ELSE /\ StepWrites(t, r)
                /\ crashed' = crashed
                /\ IF r.kind = "Continue"
                   THEN /\ thr' = [thr EXCEPT ![t].pc = "loop", ![t].snap = <<>>, ![t].old = <<>>]
                        /\ UNCHANGED running
                   ELSE /\ running' = FALSE
                        /\ thr' = Continue(t, [thr[t] EXCEPT !.snap = <<>>, !.old = <<>>],
                                           <<runProgramEvent(r.kind)>>)
    /\ UNCHANGED <<seq, breakpoints, stopOnEntry, terminated, asmState, sourceFile,
                   addressMax, nreq, msgs, wire, last, connClosed, budget, vm, asmCall>>

\* the goroutine of handleNext, or one round of the loop of handleStepOut's:
\* parse (stepOut) and the entry of stepExec
StepBegin(t) ==
    /\ ~crashed
    /\ thr[t].kind \in {"next", "stepOut"} /\ thr[t].pc = "start"
    /\ IF state = <<>>
       THEN /\ crashed' = TRUE
            /\ UNCHANGED thr
       ELSE /\ state[PC] <= MaxPC
            /\ thr' = [thr EXCEPT ![t].pc = "inStep", ![t].snap = Snapshot,
                                  ![t].inst = IF thr[t].kind = "stepOut"
                                              THEN parse(memory, state[PC]).inst ELSE ""]
            /\ UNCHANGED crashed
    /\ UNCHANGED <<seq, dapFields, nreq, msgs, wire, last, connClosed, budget, vm, asmCall>>

\* the goroutine of handleNext: stepExec returns
NextStep(t) ==
    /\ ~crashed
    /\ thr[t].kind = "next" /\ thr[t].pc = "inStep"
    /\ LET r == StepResult(t)
       IN  IF r.kind = "Panic"
           THEN /\ crashed' = TRUE
                /\ UNCHANGED <<memory, state, thr>>
           ELSE /\ StepWrites(t, r)
                /\ crashed' = crashed
                /\ thr' = Continue(t, [thr[t] EXCEPT !.snap = <<>>, !.old = <<>>],
                                   <<nextEvent(r.kind)>>)
    /\ UNCHANGED <<seq, breakpoints, running, stopOnEntry, terminated, asmState,
                   sourceFile, addressMax, nreq, msgs, wire, last, connClosed, budget, vm, asmCall>>

\* the goroutine of handleStepOut: stepExec returns; the loop ends after a
\* RET or in front of a breakpoint
StepOutStep(t) ==
    /\ ~crashed
    /\ thr[t].kind = "stepOut" /\ thr[t].pc = "inStep"
    /\ LET r == StepResult(t)
           me == [thr[t] EXCEPT !.snap = <<>>, !.inst = "", !.old = <<>>]
       IN  IF r.kind = "Panic"
           THEN /\ crashed' = TRUE
                /\ UNCHANGED <<memory, state, thr>>
           ELSE /\ StepWrites(t, r)
                /\ crashed' = crashed
                /\ IF IsError(r.kind)
                   THEN thr' = Continue(t, me, <<Evt("stopped", "exception", r.kind)>>)
                   ELSE IF r.kind = "AwaitInput"
                   THEN thr' = Continue(t, me, <<Evt("stopped", "pause", "Waiting for input")>>)
                   ELSE IF thr[t].inst = "RET" \/ state'[PC] \in breakpoints
                   THEN thr' = Continue(t, me, <<Evt("stopped", "step", "")>>)
                   ELSE thr' = [thr EXCEPT ![t] = [me EXCEPT !.pc = "start"]]
    /\ UNCHANGED <<seq, breakpoints, running, stopOnEntry, terminated, asmState,
                   sourceFile, addressMax, nreq, msgs, wire, last, connClosed, budget, vm, asmCall>>

Next ==
    \/ handleInitialize
    \/ handleLaunch
    \/ handleAttach
    \/ handleSetBreakpoints
    \/ handleConfigurationDone
    \/ handleThreads
    \/ handleStackTrace
    \/ handleScopes
    \/ handleVariables
    \/ handleContinue
    \/ handleNext
    \/ handleStepIn
    \/ handleStepOut
    \/ handlePause
    \/ handleDisconnect
    \/ handleTerminate
    \/ handleUnknown
    \/ StartReturn
    \/ ReadError
    \/ \E t \in DOMAIN thr : SendSeq(t)
    \/ \E t \in DOMAIN thr : WriteHeader(t)
    \/ \E t \in DOMAIN thr : WriteContent(t)
    \/ \E t \in Goroutines : RunStart(t)
    \/ \E t \in Goroutines : RunLoop(t)
    \/ \E t \in Goroutines : RunStep(t)
    \/ \E t \in Goroutines : StepBegin(t)
    \/ \E t \in Goroutines : NextStep(t)
    \/ \E t \in Goroutines : StepOutStep(t)

Spec == Init /\ [][Next]_vars

(***************************************************************************)
(* The session with a client that sends only launch, setBreakpoints,        *)
(* configurationDone and continue requests, MaxRunReq of them, sends a      *)
(* request only when every execution it started has ended, and keeps the    *)
(* connection open.                                                         *)
(***************************************************************************)
Quiet == \A t \in Goroutines : thr[t].pc = "done"

InitRun ==
    /\ seq = 1
    /\ memory = <<>>
    /\ state = <<>>
    /\ breakpoints = {}
    /\ running = FALSE
    /\ stopOnEntry = FALSE
    /\ terminated = FALSE
    /\ asmState = "nil"
    /\ sourceFile = ""
    /\ addressMax = 0
    /\ thr = (RECV :> Thread("recv", "read", 0, <<>>))
    /\ nreq = 0
    /\ budget = MaxRunReq
    /\ vm = <<>>
    /\ asmCall = <<>>
    /\ msgs = {}
    /\ wire = {}
    /\ last = <<>>
    /\ connClosed = FALSE
    /\ crashed = FALSE

NextRun ==
    \/ Quiet /\ handleLaunch
    \/ Quiet /\ handleSetBreakpoints
    \/ Quiet /\ handleConfigurationDone
    \/ Quiet /\ handleContinue
    \/ \E t \in DOMAIN thr : SendSeq(t)
    \/ \E t \in DOMAIN thr : WriteHeader(t)
    \/ \E t \in DOMAIN thr : WriteContent(t)
    \/ \E t \in Goroutines : RunStart(t)
    \/ \E t \in Goroutines : RunLoop(t)
    \/ \E t \in Goroutines : RunStep(t)

SpecRun == InitRun /\ [][NextRun]_vars

(***************************************************************************)
(* The session of one connection while StartDAPServer serves another: each *)
(* connection has its own DAPServer, but addressMax is a package variable,  *)
(* written by pass1 in every handleLaunch and read by stepExec.  This       *)
(* session launches "push" and continues; of the other connection only the  *)
(* assignment to addressMax is seen here.  The other connection launches    *)
(* "add", or "big": MAIN START / DS 65280 / END, whose cursor ends at       *)
(* 65280 = STACK_TOP.                                                       *)
(***************************************************************************)
OtherPrograms == {"add", "big"}

\* addressMax = address at the end of pass1
CursorOf(program) == IF program = "big" THEN STACK_TOP ELSE assemble(program).addressMax

\* handleLaunch of the other connection: its assemble sets addressMax
OtherLaunch ==
    /\ ~crashed
    /\ \E program \in OtherPrograms : addressMax' = CursorOf(program)
    /\ UNCHANGED <<seq, memory, state, breakpoints, running, stopOnEntry, terminated, asmState,
                   sourceFile, thr, nreq, msgs, wire, last, connClosed, budget, vm, asmCall,
                   crashed>>

NextTwo ==
    \/ Quiet /\ LaunchOf({"push"})
    \/ Quiet /\ handleConfigurationDone
    \/ Quiet /\ handleContinue
    \/ OtherLaunch
    \/ \E t \in DOMAIN thr : SendSeq(t)
    \/ \E t \in DOMAIN thr : WriteHeader(t)
    \/ \E t \in DOMAIN thr : WriteContent(t)
    \/ \E t \in Goroutines : RunStart(t)
    \/ \E t \in Goroutines : RunLoop(t)
    \/ \E t \in Goroutines : RunStep(t)

SpecTwo == InitRun /\ [][NextTwo]_vars

(***************************************************************************)
(* stepExec and getFlag on their own (src/emulator.go, src/main.go).        *)
(*                                                                         *)
(* vm is either a machine about to run stepExec or an argument of getFlag. *)
(* A machine has at address 0 the instruction word op gr xr, at address 1  *)
(* the word adr, at address 2 a second instruction word; register gr holds *)
(* a and every other general register b; the word at the effective address *)
(* of the first instruction and the word on top of a non-empty stack are b *)
(* too.  stepExec is then called up to MaxSteps times while it reports      *)
(* that the program goes on.                                               *)
(***************************************************************************)
MaxSteps == 2

Opcodes == 0..255
Nibbles == {0, 1, 7, 8, 15}
Words16 == {0, 1, 32767, 32768, 65535}
AddressWords == {0, 1, 3, 16, 65520, 65535}
PopRegisters == {0, 1, 7}

StackOpcodes == {112, 113, 128, 129}
JumpOpcodes == 97..102
ShiftOpcodes == 80..83

\* register values tried with the shifts: every single bit, every word with a
\* single bit clear, and the alternating patterns
ShiftWords ==
    {0, 21845, 43690, 65535} \cup {Pow2(k) : k \in 0..15} \cup {65535 - Pow2(k) : k \in 0..15}

\* the values of the operands tried with an opcode: products stay below 2^31
OperandsOf(op) ==
    IF op \notin DOMAIN COMET2TBL \/ op \in JumpOpcodes THEN {0}
    ELSE IF COMET2TBL[op][1] = "MULL" THEN {0, 1, 255, 32767, 32768}
    ELSE IF op \in ShiftOpcodes THEN ShiftWords
    ELSE Words16

\* the values of the registers other than gr (index register, second operand)
\* (for CALL also the word of a RET, so that the callee returns at once)
OthersOf(op) ==
    IF op \in ShiftOpcodes THEN {0, 1}
    ELSE IF op = 128 THEN OperandsOf(op) \cup {129 * 256}
    ELSE OperandsOf(op)

NibblesOf(op) == IF op \in DOMAIN COMET2TBL THEN Nibbles ELSE {0, 15}
IndexNibblesOf(op) == IF op \in ShiftOpcodes THEN {0, 1} ELSE NibblesOf(op)
AddressesOf(op) ==
    IF op \in ShiftOpcodes THEN (0..17) \cup {65535}
    ELSE IF op \in DOMAIN COMET2TBL THEN AddressWords ELSE {0}
FlagsOf(op) == IF op \in JumpOpcodes THEN 0..7 ELSE {FR_PLUS}
StackPointersOf(op) == IF op \in StackOpcodes THEN {STACK_TOP, STACK_TOP - 1} ELSE {STACK_TOP}
AddressMaxOf(op) == IF op \in {112, 128} THEN {3, STACK_TOP - 2} ELSE {3}
\* after a PUSH comes a POP; after anything else a NOP
SecondOf(op) == IF op = 112 THEN {113 * 256 + 16 * r : r \in PopRegisters} ELSE {0}

Machine(op, gr, xr, adr, a, b, fr, sp, amax, second) ==
    LET st == [i \in 0..10 |->
                  IF i = PC THEN 0 ELSE IF i = FR THEN fr ELSE IF i = SP THEN sp
                  ELSE IF i = GR0 + gr THEN a ELSE b]
        eadr == Mask16(IF xr >= 1 /\ xr <= 7 THEN adr + Reg(st, xr) ELSE adr)
        m0 == memPut(<<>>, eadr, b)
        m1 == IF sp < STACK_TOP THEN memPut(m0, sp, b) ELSE m0
        m2 == memPut(memPut(memPut(m1, 2, second), 1, adr), 0, op * 256 + gr * 16 + xr)
    IN  [call |-> "stepExec", memory |-> m2, state |-> st, amax |-> amax,
         kind |-> "Continue", steps |-> 0, start |-> [memory |-> m2, state |-> st]]

dapVars == <<seq, dapFields, thr, nreq, budget, msgs, wire, last, connClosed, crashed>>

InitVM ==
    /\ seq = 1
    /\ memory = <<>>
    /\ state = <<>>
    /\ breakpoints = {}
    /\ running = FALSE
    /\ stopOnEntry = FALSE
    /\ terminated = FALSE
    /\ asmState = "nil"
    /\ sourceFile = ""
    /\ addressMax = 0
    /\ thr = (RECV :> Thread("recv", "read", 0, <<>>))
    /\ nreq = 0
    /\ budget = 0
    /\ asmCall = <<>>
    /\ \/ \E op \in Opcodes :
             \E gr \in NibblesOf(op), xr \in IndexNibblesOf(op), adr \in AddressesOf(op) :
                \E a \in OperandsOf(op), b \in OthersOf(op), fr \in FlagsOf(op) :
                   \E sp \in StackPointersOf(op), amax \in AddressMaxOf(op),
                      second \in SecondOf(op) :
                      vm = Machine(op, gr, xr, adr, a, b, fr, sp, amax, second)
       \/ \E r \in 0..65535 : vm = [call |-> "getFlag", val |-> r, flag |-> -1]
    /\ msgs = {}
    /\ wire = {}
    /\ last = <<>>
    /\ connClosed = FALSE
    /\ crashed = FALSE

\* one call of stepExec on the machine
CallStepExec ==
    /\ vm.call = "stepExec"
    /\ vm.kind = "Continue"
    /\ vm.steps < MaxSteps
    /\ LET r == stepExec(vm.memory, vm.state, vm.amax)
       IN  vm' = [vm EXCEPT !.memory = r.memory, !.state = r.state,
                            !.kind = r.kind, !.steps = @ + 1]
    /\ UNCHANGED <<dapVars, asmCall>>

\* one call of getFlag
CallGetFlag ==
    /\ vm.call = "getFlag"
    /\ vm.flag = -1
    /\ vm' = [vm EXCEPT !.flag = getFlag(vm.val)]
    /\ UNCHANGED <<dapVars, asmCall>>

NextVM ==
    \/ CallStepExec
    \/ CallGetFlag

SpecVM == InitVM /\ [][NextVM]_vars

(***************************************************************************)
(* The assembler (src/assembler.go, src/lexer.go).                          *)
(*                                                                         *)
(* A source is the sequence of its lines as ParseLine returns them: label  *)
(* ("" for none), instruction ("" for none) and operands.  An operand or   *)
(* any other string the assembler handles is a record that tells what the  *)
(* text is made of, so that the tests the code makes on the text (first    *)
(* character, last character, digits only) are tests on the record:        *)
(*   GR(n)   GRn                      Num(v)   the decimal digits of v      *)
(*   Hex(v)  # and hex digits         Lbl(a)   the identifier a             *)
(*   Str(c)  the characters c quoted  Lit(o)   = followed by the text of o *)
(*   Scoped(s, o)      s, a colon, the text of o                            *)
(*   CallScoped(s, o)  CALL_, s, a colon, the text of o                     *)
(*   Suffixed(o, n)    the text of o, an underscore, the digits of n        *)
(* IntVal(v) is a value stored as a Go int.                                 *)
(***************************************************************************)
NoTok == [t |-> "none"]
GR(n) == [t |-> "reg", n |-> n]
Num(v) == [t |-> "num", v |-> v]
Hex(v) == [t |-> "hex", v |-> v]
Lbl(name) == [t |-> "label", name |-> name]
Str(chars) == [t |-> "str", chars |-> chars]
Lit(tok) == [t |-> "lit", of |-> tok]
Scoped(scope, tok) == [t |-> "sym", scope |-> scope, of |-> tok]
CallScoped(scope, tok) == [t |-> "call", scope |-> scope, of |-> tok]
Suffixed(tok, n) == [t |-> "suffixed", of |-> tok, n |-> n]
IntVal(v) == [t |-> "int", v |-> v]

\* a line of the source after the lexer: whether it starts with whitespace,
\* and its tokens without whitespace, commas and comment.  An identifier,
\* mnemonic or label, is a Lbl token (TOKEN_LABEL); a Lit token stands for
\* the "=" token and the value token after it.
Line(lead, toks) == [lead |-> lead, toks |-> toks]

\* the line written as: label at column 0 (or leading whitespace), mnemonic,
\* operands
SourceLine(label, inst, opr) ==
    Line(label = "",
         (IF label # "" THEN <<Lbl(label)>> ELSE <<>>)
            \o (IF inst # "" THEN <<Lbl(inst)>> ELSE <<>>) \o opr)

CASL2TBL ==
    ("NOP" :> <<0, "op4">>) @@ ("LD" :> <<16, "op5">>) @@ ("ST" :> <<17, "op1">>) @@
    ("LAD" :> <<18, "op1">>) @@ ("ADDA" :> <<32, "op5">>) @@ ("SUBA" :> <<33, "op5">>) @@
    ("ADDL" :> <<34, "op5">>) @@ ("SUBL" :> <<35, "op5">>) @@
    ("MULA" :> <<40, "op5">>) @@ ("DIVA" :> <<41, "op5">>) @@
    ("MULL" :> <<42, "op5">>) @@ ("DIVL" :> <<43, "op5">>) @@ ("AND" :> <<48, "op5">>) @@
    ("OR" :> <<49, "op5">>) @@ ("XOR" :> <<50, "op5">>) @@ ("CPA" :> <<64, "op5">>) @@
    ("CPL" :> <<65, "op5">>) @@ ("SLA" :> <<80, "op1">>) @@ ("SRA" :> <<81, "op1">>) @@
    ("SLL" :> <<82, "op1">>) @@ ("SRL" :> <<83, "op1">>) @@ ("JMI" :> <<97, "op2">>) @@
    ("JNZ" :> <<98, "op2">>) @@ ("JZE" :> <<99, "op2">>) @@ ("JUMP" :> <<100, "op2">>) @@
    ("JPL" :> <<101, "op2">>) @@ ("JOV" :> <<102, "op2">>) @@
    ("PUSH" :> <<112, "op2">>) @@ ("POP" :> <<113, "op3">>) @@
    ("CALL" :> <<128, "op2">>) @@ ("RET" :> <<129, "op4">>) @@
    ("SVC" :> <<240, "op2">>) @@ ("START" :> <<0, "start">>) @@
    ("END" :> <<0, "end">>) @@ ("DS" :> <<0, "ds">>) @@ ("DC" :> <<0, "dc">>) @@
    ("IN" :> <<0, "in">>) @@ ("OUT" :> <<0, "out">>) @@ ("RPUSH" :> <<0, "rpush">>) @@
    ("RPOP" :> <<0, "rpop">>)

\* isInstruction: the identifier is a key of CASL2TBL
isInstruction(tok) == tok.name \in DOMAIN CASL2TBL

ParsedLine(label, inst, opr) == [err |-> "", label |-> label, inst |-> inst, opr |-> opr]

\* ParseLine: label, instruction and operands of a line, or the error
ParseLine(line) ==
    LET toks == line.toks
        idAt(k) == k <= Len(toks) /\ toks[k].t = "label"
        rest(k) == SubSeq(toks, k, Len(toks))
    IN  IF toks = <<>> THEN ParsedLine("", "", <<>>)
        ELSE IF ~line.lead /\ idAt(1)
        THEN IF isInstruction(toks[1]) THEN ParsedLine("", toks[1].name, rest(2))
             ELSE IF idAt(2) /\ isInstruction(toks[2])
                  THEN ParsedLine(toks[1].name, toks[2].name, rest(3))
                  ELSE ParsedLine(toks[1].name, "", rest(2))
        ELSE IF line.lead /\ idAt(1)
        THEN IF isInstruction(toks[1]) THEN ParsedLine("", toks[1].name, rest(2))
             ELSE [ParsedLine("", "", <<>>) EXCEPT !.err = "expected instruction after leading whitespace"]
        ELSE ParsedLine("", "", toks)

\* src/lexer.go: the text is G, R and one digit 0..7
IsRegister(s) == s.t = "reg"

\* src/lexer.go: a letter followed by letters and digits (GRn is such a text)
IsValidLabel(s) == s.t \in {"label", "reg"}

CheckRegister(register) == IF IsRegister(register) THEN register.n ELSE 0

\* the text is GR0 or 0
isGR0(s) == s = GR(0) \/ s = Num(0)

\* # and hex digits only, or an optional sign and decimal digits only; the
\* underscore of a Suffixed text is neither
isNumberOrHex(s) == s.t \in {"num", "hex"}

\* the text begins and ends with a quote
IsQuoted(s) == s.t = "str"

\* strings.TrimPrefix(lit, "=")
TrimEquals(s) ==
    IF s.t = "lit" THEN s.of
    ELSE IF s.t = "suffixed" /\ s.of.t = "lit" THEN Suffixed(s.of.of, s.n)
    ELSE s

\* a map with one entry set
MapPut(f, k, e) == [x \in DOMAIN f \cup {k} |-> IF x = k THEN e ELSE f[x]]

MemoryEntry(val, line) == [Val |-> val, Line |-> line]

\* the text parses as hex (after #) or as decimal: the value kept, masked
ParsedNumber(val) == IntVal(Mask16(val.v))

genCode1(mem, address, val, line) ==
    MapPut(mem, address,
           MemoryEntry(IF val.t \in {"hex", "num"} THEN ParsedNumber(val) ELSE val, line))

\* only the instruction word, the address word left out
genCode2OneWord(mem, address, code, gr, adr, xr, line) ==
    MapPut(mem, address,
           MemoryEntry(IntVal(code * 256 + CheckRegister(gr) * 16 + CheckRegister(xr)), line))
genCode2(mem, address, code, gr, adr, xr, line) ==
    LET val == code * 256 + CheckRegister(gr) * 16 + CheckRegister(xr)
        m1  == MapPut(mem, address, MemoryEntry(IntVal(val), line))
    IN  MapPut(m1, address + 1,
               MemoryEntry(IF adr.t = "hex" THEN ParsedNumber(adr) ELSE adr, line))

\* the two register fields in each other's place
genCode3Swapped(mem, address, code, gr1, gr2, line) ==
    MapPut(mem, address,
           MemoryEntry(IntVal(code * 256 + CheckRegister(gr2) * 16 + CheckRegister(gr1)), line))
genCode3(mem, address, code, gr1, gr2, line) ==
    MapPut(mem, address,
           MemoryEntry(IntVal(code * 256 + CheckRegister(gr1) * 16 + CheckRegister(gr2)), line))

\* newAssemblerState and the locals of pass1
newAssemblerState ==
    [err |-> "", inBlock |-> FALSE, address |-> 0, literalStack |-> <<>>,
     comet2startLabel |-> NoTok, symtbl |-> <<>>, memory |-> <<>>,
     actualLabel |-> NoTok, virtualLabel |-> "", firstStart |-> TRUE, varScope |-> "",
     literalCounter |-> 0, line |-> 0]

errorCasl2(s, msg) == [s EXCEPT !.err = msg]

SymbolEntry(val, line) == [Val |-> IntVal(val), Line |-> line]

\* addLabel without the test for a label already defined
addLabelOverwrite(s, label, val) ==
    [s EXCEPT !.symtbl = MapPut(@, Scoped(s.varScope, Lbl(label)), SymbolEntry(val, s.line))]
addLabel(s, label, val) ==
    LET uniqLabel == Scoped(s.varScope, Lbl(label))
    IN  IF uniqLabel \in DOMAIN s.symtbl THEN errorCasl2(s, "Label has already defined")
        ELSE [s EXCEPT !.symtbl = MapPut(@, uniqLabel, SymbolEntry(val, s.line))]

updateLabel(s, label, val) ==
    LET uniqLabel == Scoped(s.varScope, Lbl(label))
    IN  IF uniqLabel \notin DOMAIN s.symtbl THEN errorCasl2(s, "Label is not defined")
        ELSE [s EXCEPT !.symtbl = MapPut(@, uniqLabel, SymbolEntry(val, s.line))]

\* "Register label to symbol table"
RegisterLabel(s, label) ==
    IF label = "" \/ ~s.inBlock THEN s
    ELSE LET s1 == addLabel(s, label, s.address)
         IN  IF s1.err # "" THEN s1
             ELSE IF s.actualLabel = Lbl(label)
                  THEN LET s2 == updateLabel(s1, s1.virtualLabel, s1.address)
                       IN  IF s2.err # "" THEN s2 ELSE [s2 EXCEPT !.actualLabel = NoTok]
                  ELSE s1

\* handleLiteral and the scoping of a label operand of OP1 and OP5
WithLiteral(s, adr) ==
    IF adr.t = "lit"
    THEN [s EXCEPT !.literalStack = Append(@, Suffixed(adr, s.literalCounter)),
                   !.literalCounter = @ + 1]
    ELSE s
AddressOperand(s, adr) ==
    IF adr.t = "lit" THEN Suffixed(adr, s.literalCounter)
    ELSE IF IsValidLabel(adr) /\ ~IsRegister(adr) THEN Scoped(s.varScope, adr)
    ELSE adr

\* the characters of a string and the 0 after them
RECURSIVE EmitString(_, _, _, _)
EmitString(mem, address, chars, line) ==
    IF chars = <<>> THEN genCode1(mem, address, IntVal(0), line)
    ELSE EmitString(genCode1(mem, address, IntVal(Head(chars)), line), address + 1,
                    Tail(chars), line)

\* END: "Expand literals"
RECURSIVE ExpandLiterals(_, _)
ExpandLiterals(s, stack) ==
    IF stack = <<>> \/ s.err # "" THEN s
    ELSE LET s1  == [s EXCEPT !.symtbl = MapPut(@, Head(stack), SymbolEntry(s.address, s.line))]
             lit == TrimEquals(Head(stack))
         IN  IF IsQuoted(lit)
             THEN ExpandLiterals(
                    [s1 EXCEPT !.memory = EmitString(@, s1.address, lit.chars, s1.line),
                               !.address = @ + Len(lit.chars) + 1], Tail(stack))
             ELSE IF isNumberOrHex(lit)
             THEN ExpandLiterals(
                    [s1 EXCEPT !.memory = genCode1(@, s1.address, lit, s1.line),
                               !.address = @ + 1], Tail(stack))
             ELSE errorCasl2(s1, "Invalid literal")

\* DC: one operand after the other
RECURSIVE EmitConstants(_, _)
EmitConstants(s, ops) ==
    IF ops = <<>> THEN s
    ELSE LET op == Head(ops)
         IN  IF IsQuoted(op)
             THEN EmitConstants(
                    [s EXCEPT !.memory = EmitString(@, s.address, op.chars, s.line),
                              !.address = @ + Len(op.chars) + 1], Tail(ops))
             ELSE EmitConstants(
                    [s EXCEPT !.memory = genCode1(@, s.address,
                                            IF IsValidLabel(op) THEN Scoped(s.varScope, op) ELSE op,
                                            s.line),
                              !.address = @ + 1], Tail(ops))

\* DS: count words of 0
RECURSIVE EmitZeros(_, _, _, _)
EmitZeros(mem, address, count, line) ==
    IF count <= 0 THEN mem
    ELSE EmitZeros(genCode1(mem, address, IntVal(0), line), address + 1, count - 1, line)

\* RPUSH: PUSH with the operand strings "0", "0" and the decimal digits of j+1
RECURSIVE EmitRpush(_, _, _, _)
EmitRpush(mem, address, j, line) ==
    IF j >= 7 THEN mem
    ELSE EmitRpush(genCode2(mem, address + j * 2, CASL2TBL["PUSH"][1], Num(0), Num(0),
                            Num(j + 1), line), address, j + 1, line)

\* RPOP: POP with the operand strings of the decimal digits of 7-j and "0"
RECURSIVE EmitRpop(_, _, _, _)
EmitRpop(mem, address, j, line) ==
    IF j >= 7 THEN mem
    ELSE EmitRpop(genCode3(mem, address + j, CASL2TBL["POP"][1], Num(7 - j), Num(0), line),
                  address, j + 1, line)

\* IN and OUT
EmitInOut(mem, address, entry, buf, len, line) ==
    LET m1 == genCode2(mem, address, CASL2TBL["PUSH"][1], Num(0), Num(0), Num(1), line)
        m2 == genCode2(m1, address + 2, CASL2TBL["PUSH"][1], Num(0), Num(0), Num(2), line)
        m3 == genCode2(m2, address + 4, CASL2TBL["LAD"][1], Num(1), buf, Num(0), line)
        m4 == genCode2(m3, address + 6, CASL2TBL["LAD"][1], Num(2), len, Num(0), line)
        m5 == genCode2(m4, address + 8, CASL2TBL["SVC"][1], Num(0), Num(entry), Num(0), line)
        m6 == genCode3(m5, address + 10, CASL2TBL["POP"][1], Num(2), Num(0), line)
    IN  genCode3(m6, address + 11, CASL2TBL["POP"][1], Num(1), Num(0), line)

\* "Generate object code according to instruction type", for a state s whose
\* label has been registered
GenerateCode(s, ln) ==
    LET inst == ln.inst
        opr  == ln.opr
        n    == Len(opr)
        type == CASL2TBL[inst][2]
        code == CASL2TBL[inst][1]
        opr3 == IF n = 2 THEN Append(opr, Num(0)) ELSE opr
        opr2 == IF n = 1 THEN Append(opr, Num(0)) ELSE opr
    IN  IF inst \notin DOMAIN CASL2TBL THEN errorCasl2(s, "Illegal instruction")
        ELSE IF ~s.inBlock /\ type # "start" THEN errorCasl2(s, "NO START instruction found")
        ELSE IF n > 2 /\ isGR0(opr[3])
             THEN errorCasl2(s, "Can't use GR0 as an index register")
        ELSE CASE type = "op1" ->
                 IF n < 2 \/ n > 3 THEN errorCasl2(s, "Invalid operand")
                 ELSE LET s1 == WithLiteral(s, opr[2])
                      IN  [s1 EXCEPT !.memory = genCode2(@, s.address, code, opr3[1],
                                                         AddressOperand(s, opr[2]), opr3[3],
                                                         s.line),
                                     !.address = @ + 2]
          [] type = "op2" ->
                 IF n < 1 \/ n > 2 THEN errorCasl2(s, "Invalid operand")
                 ELSE LET adr == IF ~IsRegister(opr[1]) /\ IsValidLabel(opr[1])
                                 THEN IF inst = "CALL" THEN CallScoped(s.varScope, opr[1])
                                      ELSE Scoped(s.varScope, opr[1])
                                 ELSE opr[1]
                      IN  [s EXCEPT !.memory = genCode2(@, s.address, code, Num(0), adr,
                                                        opr2[2], s.line),
                                    !.address = @ + 2]
          [] type = "op3" ->
                 IF n # 1 THEN errorCasl2(s, "Invalid operand")
                 ELSE [s EXCEPT !.memory = genCode3(@, s.address, code, opr[1], Num(0), s.line),
                                !.address = @ + 1]
          [] type = "op4" ->
                 IF n # 0 THEN errorCasl2(s, "Invalid operand")
                 ELSE [s EXCEPT !.memory = genCode1(@, s.address, IntVal(code * 256), s.line),
                                !.address = @ + 1]
          [] type = "op5" ->
                 IF n < 2 \/ n > 3 THEN errorCasl2(s, "Invalid operand")
                 ELSE LET s1  == WithLiteral(s, opr[2])
                          adr == AddressOperand(s, opr[2])
                      IN  IF IsRegister(adr)
                          THEN [s1 EXCEPT !.memory = genCode3(@, s.address, code + 4, opr[1],
                                                              adr, s.line),
                                          !.address = @ + 1]
                          ELSE [s1 EXCEPT !.memory = genCode2(@, s.address, code, opr[1], adr,
                                                              opr3[3], s.line),
                                          !.address = @ + 2]
          [] type = "start" ->
                 IF ln.label = "" THEN errorCasl2(s, "No label found at START")
                 ELSE LET s1 == IF s.firstStart
                                THEN [s EXCEPT !.firstStart = FALSE,
                                               !.comet2startLabel =
                                                   Scoped(ln.label,
                                                          IF n > 0 THEN opr[1] ELSE Lbl(ln.label))]
                                ELSE [s EXCEPT !.actualLabel = IF n > 0 THEN opr[1] ELSE NoTok,
                                               !.virtualLabel = ln.label]
                          s2 == addLabel([s1 EXCEPT !.varScope = ln.label], ln.label, s.address)
                      IN  IF s2.err # "" THEN s2 ELSE [s2 EXCEPT !.inBlock = TRUE]
          [] type = "end" ->
                 IF ln.label # "" THEN errorCasl2(s, "Can't use label at END")
                 ELSE IF n # 0 THEN errorCasl2(s, "Invalid operand")
                 ELSE LET s1 == ExpandLiterals(s, s.literalStack)
                      IN  IF s1.err # "" THEN s1
                          ELSE [s1 EXCEPT !.varScope = "", !.inBlock = FALSE]
          [] type = "ds" ->
                 IF n # 1 THEN errorCasl2(s, "Invalid operand")
                 ELSE IF opr[1].t # "num" THEN errorCasl2(s, "must be decimal")
                 ELSE [s EXCEPT !.memory = EmitZeros(@, s.address, opr[1].v, s.line),
                                !.address = @ + (IF opr[1].v > 0 THEN opr[1].v ELSE 0)]
          [] type = "dc" ->
                 IF n < 1 THEN errorCasl2(s, "Invalid operand")
                 ELSE EmitConstants(s, opr)
          [] type \in {"in", "out"} ->
                 IF n # 2 THEN errorCasl2(s, "Invalid operand")
                 ELSE [s EXCEPT !.memory = EmitInOut(@, s.address,
                                                     IF type = "out" THEN SYS_OUT ELSE SYS_IN,
                                                     Scoped(s.varScope, opr[1]),
                                                     Scoped(s.varScope, opr[2]), s.line),
                                !.address = @ + 12]
          [] type = "rpush" ->
                 IF n # 0 THEN errorCasl2(s, "Invalid operand")
                 ELSE [s EXCEPT !.memory = EmitRpush(@, s.address, 0, s.line), !.address = @ + 14]
          [] type = "rpop" ->
                 IF n # 0 THEN errorCasl2(s, "Invalid operand")
                 ELSE [s EXCEPT !.memory = EmitRpop(@, s.address, 0, s.line), !.address = @ + 7]

\* the body of pass1's loop for line number i of the source
RECURSIVE Pass1Lines(_, _, _)
Pass1Lines(s, source, i) ==
    IF i > Len(source) \/ s.err # "" THEN s
    ELSE IF source[i].toks = <<>> THEN Pass1Lines(s, source, i + 1)
    ELSE LET ln == ParseLine(source[i])
             s0 == [s EXCEPT !.line = i]
             s1 == RegisterLabel(s0, ln.label)
         IN  IF ln.err # "" THEN errorCasl2(s0, "Syntax error")
             ELSE IF s1.err # "" THEN s1
             ELSE IF ln.inst = "" THEN Pass1Lines(s1, source, i + 1)
             ELSE Pass1Lines(GenerateCode(s1, ln), source, i + 1)

\* pass1: the assembler state it leaves; addressMax is set only on success
pass1(source) ==
    LET s == Pass1Lines(newAssemblerState, source, 1)
    IN  IF s.err # "" THEN s
        ELSE IF s.inBlock THEN errorCasl2(s, "NO END instruction found")
        ELSE s

\* expandLabel: the 16-bit value of an int or of a string
expandLabel(symtbl, val) ==
    CASE val.t = "int" -> Mask16(val.v)
      [] val.t = "hex" -> Mask16(val.v)
      [] val \in DOMAIN symtbl -> Mask16(symtbl[val].Val.v)
      [] val.t = "call" /\ Scoped(val.scope, val.of) \in DOMAIN symtbl ->
             Mask16(symtbl[Scoped(val.scope, val.of)].Val.v)
      [] val.t = "call" /\ val.of.t = "label" /\ Scoped(val.of.name, val.of) \in DOMAIN symtbl ->
             Mask16(symtbl[Scoped(val.of.name, val.of)].Val.v)
      [] val.t = "num" -> Mask16(val.v)
      [] OTHER -> 0

\* the addresses of a set in increasing order
RECURSIVE SortAddresses(_)
SortAddresses(S) ==
    IF S = {} THEN <<>>
    ELSE LET m == CHOOSE a \in S : \A b \in S : a <= b
         IN  <<m>> \o SortAddresses(S \ {m})

\* pass2: one word for each address of asmState.memory, in increasing order
pass2(s) ==
    LET addresses == SortAddresses({a \in DOMAIN s.memory : a >= 0})
    IN  [i \in 1..Len(addresses) |-> expandLabel(s.symtbl, s.memory[addresses[i]].Val)]

\* assemble: comet2bin and the start label, or the error; asmState is the
\* assembler state, addressMax what the package variable becomes (-1: not set)
assembleSource(source) ==
    LET s == pass1(source)
    IN  [ok |-> s.err = "", err |-> s.err, asmState |-> s,
         comet2bin |-> IF s.err = "" THEN pass2(s) ELSE <<>>,
         startLabel |-> s.comet2startLabel,
         addressMax |-> IF s.err = "" THEN s.address ELSE -1]

(***************************************************************************)
(* assemble on its own.  asmCall holds a source and, once assemble has   *)
(* been called on it, what assemble returned.  A source is                 *)
(*   MAIN START / up to MaxLines lines of BodyLines / an ending            *)
(* where the ending is END, nothing (END forgotten), or END followed by a  *)
(* second section SUB START / RET / END; or it is a source of two sections *)
(* MAIN and SUB of up to MaxScopeLines lines of ScopeLines each; or it is   *)
(* MAIN START / one machine instruction in one of its shapes / END.        *)
(***************************************************************************)
MaxLines == 3

BodyLines ==
    { SourceLine("", "RET", <<>>),
      SourceLine("", "NOP", <<>>),
      SourceLine("", "LD", <<GR(0), Lit(Hex(255))>>),
      SourceLine("", "LAD", <<GR(1), Lit(Num(10))>>),
      SourceLine("", "LD", <<GR(2), Lit(Str(<<65>>))>>),
      SourceLine("", "IN", <<Lbl("BUF"), Lbl("LEN")>>),
      SourceLine("", "OUT", <<Lbl("BUF"), Lbl("LEN")>>),
      SourceLine("", "RPUSH", <<>>),
      SourceLine("", "RPOP", <<>>),
      SourceLine("BUF", "DS", <<Num(2)>>),
      SourceLine("LEN", "DC", <<Num(3)>>),
      SourceLine("", "DC", <<Str(<<65, 66>>)>>),
      SourceLine("", "DS", <<Num(0)>>),
      SourceLine("", "LD", <<GR(1), GR(2)>>),
      SourceLine("", "ST", <<GR(1), Lbl("BUF"), GR(2)>>),
      SourceLine("", "CALL", <<Lbl("SUB")>>),
      SourceLine("", "PUSH", <<Num(0), GR(1)>>),
      SourceLine("", "POP", <<GR(3)>>),
      SourceLine("L", "", <<>>),
      Line(TRUE, <<Lbl("FOO"), GR(1), GR(2)>>),
      Line(FALSE, <<Lbl("LBL"), Lbl("FOO"), GR(1), GR(2)>>) }

Endings ==
    { <<SourceLine("", "END", <<>>)>>,
      <<>>,
      <<SourceLine("", "END", <<>>), SourceLine("SUB", "START", <<>>),
        SourceLine("", "RET", <<>>), SourceLine("", "END", <<>>)>> }

\* sources of two sections, for labels and scopes
MaxScopeLines == 2

ScopeLines ==
    { SourceLine("L", "NOP", <<>>),
      SourceLine("BEGIN", "RET", <<>>),
      SourceLine("ENTRY", "RET", <<>>),
      SourceLine("SUB", "NOP", <<>>),
      SourceLine("", "CALL", <<Lbl("SUB")>>),
      SourceLine("", "CALL", <<Lbl("MAIN")>>),
      SourceLine("", "CALL", <<Lbl("L")>>),
      SourceLine("", "LAD", <<GR(1), Lbl("SUB")>>),
      SourceLine("", "LAD", <<GR(1), Lbl("L")>>) }

FirstStarts == { SourceLine("MAIN", "START", <<>>), SourceLine("MAIN", "START", <<Lbl("BEGIN")>>) }

SecondStarts == { SourceLine("SUB", "START", <<>>), SourceLine("SUB", "START", <<Lbl("ENTRY")>>) }

ScopeSources(n1, n2) ==
    { <<s1>> \o b1 \o <<SourceLine("", "END", <<>>), s2>> \o b2 \o <<SourceLine("", "END", <<>>)>> :
         s1 \in FirstStarts, s2 \in SecondStarts,
         b1 \in [1..n1 -> ScopeLines], b2 \in [1..n2 -> ScopeLines] }

\* sources of one machine instruction in each of its shapes, for the encoding
Registers == 0..7

AddressTexts == {Num(5), Hex(65535)}

MachineMnemonics == {m \in DOMAIN CASL2TBL : CASL2TBL[m][2] \in {"op1", "op2", "op3", "op4", "op5"}}

\* the operand lists a mnemonic is written with: r,adr[,x] and r1,r2 for
\* OP5, r,adr[,x] for OP1, adr[,x] for OP2, r for OP3, none for OP4
ShapesOf(m) ==
    LET type == CASL2TBL[m][2]
        regAddr == {<<GR(r), a>> : r \in Registers, a \in AddressTexts}
                      \cup {<<GR(r), a, GR(x)>> : r \in Registers, a \in AddressTexts,
                                                  x \in Registers \ {0}}
        regReg  == {<<GR(r1), GR(r2)>> : r1 \in Registers, r2 \in Registers}
        addr    == {<<a>> : a \in AddressTexts}
                      \cup {<<a, GR(x)>> : a \in AddressTexts, x \in Registers \ {0}}
    IN  CASE type = "op5" -> regAddr \cup regReg
          [] type = "op1" -> regAddr
          [] type = "op2" -> addr
          [] type = "op3" -> {<<GR(r)>> : r \in Registers}
          [] type = "op4" -> {<<>>}

InitAsm ==
    /\ seq = 1
    /\ memory = <<>>
    /\ state = <<>>
    /\ breakpoints = {}
    /\ running = FALSE
    /\ stopOnEntry = FALSE
    /\ terminated = FALSE
    /\ asmState = "nil"
    /\ sourceFile = ""
    /\ addressMax = 0
    /\ thr = (RECV :> Thread("recv", "read", 0, <<>>))
    /\ nreq = 0
    /\ budget = 0
    /\ vm = <<>>
    /\ \/ \E n \in 0..MaxLines :
             \E body \in [1..n -> BodyLines], ending \in Endings :
                asmCall = [source |-> <<SourceLine("MAIN", "START", <<>>)>> \o body \o ending,
                           called |-> FALSE, result |-> <<>>]
       \/ \E n1 \in 0..MaxScopeLines, n2 \in 0..MaxScopeLines :
             \E source \in ScopeSources(n1, n2) :
                asmCall = [source |-> source, called |-> FALSE, result |-> <<>>]
       \/ \E m \in MachineMnemonics :
             \E opr \in ShapesOf(m) :
                asmCall = [source |-> <<SourceLine("MAIN", "START", <<>>), SourceLine("", m, opr),
                                        SourceLine("", "END", <<>>)>>,
                           called |-> FALSE, result |-> <<>>]
    /\ msgs = {}
    /\ wire = {}
    /\ last = <<>>
    /\ connClosed = FALSE
    /\ crashed = FALSE

\* one call of assemble on the source
CallAssemble ==
    /\ ~asmCall.called
    /\ asmCall' = [asmCall EXCEPT !.called = TRUE, !.result = assembleSource(asmCall.source)]
    /\ UNCHANGED <<dapVars, vm>>

NextAsm ==
    \/ CallAssemble

SpecAsm == InitAsm /\ [][NextAsm]_vars



(***************************************************************************)
(* Properties of the debug session.                                         *)
(***************************************************************************)
Headers == {c[1] : c \in {w \in wire : w[2] = "header"}}
Written == {c[1] : c \in {w \in wire : w[2] = "content"}}

\* the terminated event of handleDisconnect / handleTerminate
DisconnectEvents == {m \in msgs : m.type = "event" /\ m.name = "terminated" /\ m.by = RECV}

\* the events sent by the goroutine of an execution
ExecutionEvents == {m \in msgs : m.type = "event" /\ m.by # RECV}

\* the stopped event of handlePause
PauseEvents ==
    {m \in msgs : m.type = "event" /\ m.name = "stopped" /\ m.reason = "pause" /\ m.by = RECV}

\* C1: the response to a request is completely on the socket before the first
\* byte of any event caused by that request, whether the handler itself or the
\* goroutine it started sends the event.
C1_ResponseBeforeEvents ==
    \A m \in Headers : m.type = "event" =>
        \E r \in Written : r.type = "response" /\ r.request_seq = m.cause

\* C1: a goroutine's event has been written while the receiver is in a later
\* handler
C1_Witness ==
    \E m \in Written : m \in ExecutionEvents /\ m.cause < nreq /\ thr[RECV].pc # "read"

\* C2: a stopped{pause} event sent for a pause request that arrived while
\* execution r was in progress ends r, so it is not followed by an event of
\* r's own: no event of an execution started before the pause request carries
\* a seq after the pause event's.
C2_OneTerminalEvent ==
    \A p \in PauseEvents \cap Written : \A m \in ExecutionEvents \cap Written :
        ~(m.cause < p.cause /\ p.seq < m.seq)

\* C3: at most one execution is inside stepExec at any time.
C3_SingleExecutor ==
    Cardinality({t \in Goroutines : thr[t].pc = "inStep"}) <= 1

\* C4: once the stopped{pause} event of the latest request is on the socket, no
\* autonomous run started by an earlier request begins another instruction
\* (one already inside stepExec may finish).
C4_PauseStopsRun ==
    [][(\E p \in PauseEvents \cap Written : p.cause = nreq) =>
         \A r \in Goroutines :
            (thr[r].kind = "run" /\ thr[r].pc # "inStep") => thr'[r].pc # "inStep"]_vars

\* C5: between the header and the content of one message nothing else is
\* written to the socket.
C5_FramesContiguous ==
    \A t \in DOMAIN thr :
        (thr[t].pc = "content" /\ ~connClosed) => last = <<thr[t].msg, "header">>

\* C6: the messages built so far carry exactly the seq values 1..n, each once,
\* and the next message gets n + 1, whichever goroutines are sending.
C6_SeqDistinctIncreasing ==
    /\ {m.seq : m \in msgs} = 1..Cardinality(msgs)
    /\ seq = Cardinality(msgs) + 1

\* C6: two goroutines and the receiver are inside sendMessage at once
C6_Witness ==
    /\ Cardinality({t \in Goroutines : thr[t].pc \in {"header", "content"}}) >= 2
    /\ thr[RECV].pc \in {"header", "content"}

\* C7: once the terminated event of disconnect/terminate is on the socket, no
\* execution begins another instruction and no execution's event is written.
C7_DisconnectStopsExecution ==
    [][(DisconnectEvents \cap Written # {}) =>
         /\ \A r \in Goroutines : thr[r].pc # "inStep" => thr'[r].pc # "inStep"
         /\ \A c \in wire' \ wire : c[1].by = RECV]_vars

\* C8: the terminated event of disconnect/terminate goes out after the success
\* response to that request; once the handler has run no further request is
\* dispatched; and when Start has returned after it, both messages are on the
\* socket and the connection is closed.
C8_DisconnectEndsSession ==
    /\ [](\A m \in DisconnectEvents \cap Headers :
            \E r \in Written : /\ r.type = "response" /\ r.request_seq = m.cause
                               /\ r.success /\ r.name \in {"disconnect", "terminate"})
    /\ [][terminated => nreq' = nreq]_vars
    /\ []((terminated /\ thr[RECV].pc = "exit") =>
            (connClosed /\ DisconnectEvents \cap Written # {}))

\* C8: Start has returned after a disconnect that arrived during an execution
C8_Witness ==
    /\ terminated /\ thr[RECV].pc = "exit"
    /\ \E r \in Goroutines : thr[r].pc # "done"

\* C9: no handler and no goroutine reads d.state while it is nil.
C9_NoUnconstructedVM ==
    ~(crashed /\ state = <<>>)

SmallestAddress(asm, line) ==
    CHOOSE a \in findAddressForLine(asm, line) :
        \A b \in findAddressForLine(asm, line) : a <= b

\* C10: when handleSetBreakpoints answers, the breakpoint set holds, for each
\* line it verified, the smallest address assembled from that line.
C10_SmallestAddress ==
    (thr[RECV].pc = "send" /\ Head(thr[RECV].todo).name = "setBreakpoints") =>
        LET body == Head(thr[RECV].todo).body
        IN  breakpoints = {SmallestAddress(asmState, body[i].line) :
                              i \in {j \in 1..Len(body) : body[j].verified}}


\* the response to request r
ResponseTo(r) == {m \in msgs : m.type = "response" /\ m.request_seq = r}

\* request r - 2 was a launch that succeeded, request r - 1 a setBreakpoints
\* that verified a line, request r started an execution, the first on this
\* connection, and no request came after it
LaunchedWithBreakpoint(r, b) ==
    /\ Goroutines = {r} /\ nreq = r
    /\ b \in ResponseTo(r - 1) /\ b.name = "setBreakpoints"
    /\ \E i \in 1..Len(b.body) : b.body[i].verified
    /\ \E l \in ResponseTo(r - 2) : l.name = "launch" /\ l.success

\* C11: a run of program "add" (every line of which it reaches) started right
\* after a setBreakpoints that verified a line sends stopped{breakpoint} as its
\* first event, with PC at the first word of a verified line.
C11_BreakpointFirstEvent ==
    \A m \in ExecutionEvents : \A b \in msgs :
        (asmState = "add" /\ LaunchedWithBreakpoint(m.cause, b)) =>
            /\ m.name = "stopped" /\ m.reason = "breakpoint"
            /\ \E i \in 1..Len(b.body) :
                  b.body[i].verified /\ state[PC] = SmallestAddress("add", b.body[i].line)


\* C12: when a run of "add" has stopped at its only breakpoint, the run started
\* by the next request, a continue, ends with a terminated event.
C12_ContinuePastBreakpoint ==
    \A p \in ExecutionEvents : \A m \in ExecutionEvents :
        (/\ asmState = "add" /\ Cardinality(breakpoints) = 1
         /\ p.name = "stopped" /\ p.reason = "breakpoint"
         /\ m.cause = p.cause + 1
         /\ \E r \in ResponseTo(m.cause) : r.name = "continue") =>
            m.name = "terminated"


\* the event a goroutine has just been given to send
Sending(threads, t, name, reason) ==
    /\ threads[t].pc = "send"
    /\ threads[t].todo = <<Evt(name, reason, threads[t].todo[1].body)>>

Terminations == {"ProgramFinished", "StackOverflow", "StackUnderflow", "IllegalInstruction"}

C14_NextStepsOnce ==
    /\ [][handleStepIn <=> handleNext]_vars
    /\ [][\A t \in Goroutines : thr[t].kind = "next" =>
            /\ thr'[t].pc = "inStep" => thr[t].pc \in {"start", "inStep"}
            /\ thr'[t].pc = "start" => thr[t].pc = "start"
            /\ (thr[t].pc = "inStep" /\ thr'[t].pc # "inStep") =>
                  LET k == StepResult(t).kind
                  IN  /\ k = "Continue" => Sending(thr', t, "stopped", "step")
                      /\ k = "AwaitInput" => Sending(thr', t, "stopped", "pause")
                      /\ k \in Terminations => Sending(thr', t, "stopped", "exception")]_vars
    /\ [](\A t \in Goroutines : thr[t].kind = "next" =>
            /\ Cardinality({m \in msgs : m.by = t}) <= 1
            /\ thr[t].pc = "done" => Cardinality({m \in msgs : m.by = t}) = 1)

\* C14: a step has run into SVC IN and its goroutine has sent the
\* stopped{pause} event and ended
C14_Witness ==
    \E m \in Written : /\ m \in ExecutionEvents /\ thr[m.by].kind = "next"
                       /\ m.reason = "pause" /\ thr[m.by].pc = "done"


\* the step in which handleLaunch runs, up to its sendResponse, for a request
\* that has a program argument
LaunchStep ==
    /\ nreq' = nreq + 1
    /\ thr'[RECV].todo # <<>> /\ Head(thr'[RECV].todo).name = "launch"
    /\ Head(thr'[RECV].todo).body # "Missing 'program' argument"

\* the sources that assemble and the one that does not (it has no END)
Assembling == {"add", "loop", "in", "pop"}
NotAssembling == {"bad"}

\* C15: handleLaunch of a program that assembles answers success and leaves
\* PC at the start label's address, FR = 0, GR0..GR7 = 0, SP = 0xFF00 and the
\* memory equal to the assembled image from address 0, 0 elsewhere.
C15_LaunchFreshVM ==
    [][(LaunchStep /\ sourceFile' \in Assembling) =>
          LET a == assemble(sourceFile')
          IN  /\ Head(thr'[RECV].todo).success
              /\ DOMAIN state' = 0..10
              /\ state'[PC] = a.start /\ state'[FR] = 0 /\ state'[SP] = 65280
              /\ \A r \in 0..7 : state'[GR0 + r] = 0
              /\ \A adr \in DOMAIN memory' \cup (0..(Len(a.image) - 1)) :
                    memGet(memory', adr) = IF adr < Len(a.image) THEN a.image[adr + 1] ELSE 0]_vars

\* C15: "add" has been launched again after an execution has run, and the
\* handler is about to answer
C15_Witness ==
    /\ thr[RECV].pc = "send" /\ Head(thr[RECV].todo).name = "launch"
    /\ Head(thr[RECV].todo).success
    /\ asmState = "add" /\ state[PC] = 0
    /\ \E t \in Goroutines : thr[t].pc = "done"

\* C16: handleLaunch of a program that does not assemble answers
\* success:false, and a launch that answers success:false leaves d.state,
\* d.memory, d.asmState and d.breakpoints as they were.
C16_FailedLaunchKeepsSession ==
    [][LaunchStep =>
          /\ sourceFile' \in NotAssembling =>
                /\ ~Head(thr'[RECV].todo).success
                /\ Head(thr'[RECV].todo).body = "Assembly failed"
          /\ ~Head(thr'[RECV].todo).success =>
                UNCHANGED <<state, memory, asmState, breakpoints, addressMax>>]_vars

\* C16: the launch of "bad" has failed in a session that holds another
\* program with a breakpoint set
C16_Witness ==
    /\ sourceFile = "bad" /\ asmState = "add" /\ breakpoints # {}
    /\ \E m \in Written : m.type = "response" /\ m.name = "launch" /\ ~m.success

(***************************************************************************)
(* Properties of stepExec and getFlag.                                      *)
(***************************************************************************)
StepOutcomes ==
    {"Continue", "AwaitInput", "ProgramFinished", "StackOverflow", "StackUnderflow",
     "IllegalInstruction"}

\* the opcode byte of the instruction the first call executed
FirstOpcode == memGet(vm.start.memory, vm.start.state[PC]) \div 256

\* C17: a call of stepExec returns one of Continue, AwaitInput,
\* ProgramFinished, StackOverflow, StackUnderflow, IllegalInstruction whatever
\* the memory and the 16-bit registers hold; a word whose opcode is unknown
\* gives IllegalInstruction, and no instruction word (whatever its register
\* nibbles or its shift amount) makes the call fail in another way.
C17_StepTotal ==
    (vm.call = "stepExec" /\ vm.steps > 0) =>
        /\ vm.kind \in StepOutcomes
        /\ (vm.steps = 1 /\ FirstOpcode \notin DOMAIN COMET2TBL) => vm.kind = "IllegalInstruction"

\* C18: for every 16-bit value r, getFlag(r) is exactly one of PLUS (0),
\* ZERO (1) and MINUS (2): ZERO exactly when r = 0, MINUS exactly when bit 15
\* of r is set, PLUS otherwise; it never contains the OVERFLOW bit.
C18_GetFlag ==
    (vm.call = "getFlag" /\ vm.flag # -1) =>
        /\ vm.flag \in {FR_PLUS, FR_ZERO, FR_MINUS}
        /\ FR_PLUS = 0 /\ FR_ZERO = 1 /\ FR_MINUS = 2
        /\ (vm.flag = FR_ZERO) <=> (vm.val = 0)
        /\ (vm.flag = FR_MINUS) <=> (vm.val >= 32768)
        /\ (vm.flag = FR_PLUS) <=> (vm.val > 0 /\ vm.val < 32768)
        /\ BitAnd(vm.flag, FR_OVER) = 0

\* getFlag has answered MINUS for 0x8000, the smallest value with bit 15 set
C18_Witness == vm.call = "getFlag" /\ vm.val = 32768 /\ vm.flag = FR_MINUS

\* the effective address of the instruction the first call executed
FirstEffectiveAddress ==
    LET st  == vm.start.state
        xr  == memGet(vm.start.memory, st[PC]) % 16
        adr == memGet(vm.start.memory, st[PC] + 1)
    IN  Mask16(IF xr >= 1 /\ xr <= 7 THEN adr + Reg(st, xr) ELSE adr)

\* the register nibble of the instruction after the first (two-word) one
SecondRegister == (memGet(vm.start.memory, vm.start.state[PC] + 2) \div 16) % 16

\* C19: when PUSH adr[,x] does not overflow, the POP r that follows it leaves
\* in r the effective address PUSH pushed and in SP the value SP had before
\* the PUSH, for every address, index register and target register.
C19_PushThenPop ==
    (vm.call = "stepExec" /\ FirstOpcode = 112 /\ vm.steps = 2) =>
        /\ vm.kind = "Continue"
        /\ Reg(vm.state, SecondRegister) = FirstEffectiveAddress
        /\ vm.state[SP] = vm.start.state[SP]

\* PUSH 16,GR1 with GR1 = 1 on a stack holding one word, then POP GR7
C19_Witness ==
    /\ vm.call = "stepExec" /\ FirstOpcode = 112 /\ vm.steps = 2
    /\ memGet(vm.start.memory, 0) % 16 = 1
    /\ FirstEffectiveAddress = 17
    /\ SecondRegister = 7
    /\ Reg(vm.state, 7) = 17
    /\ vm.state[SP] = STACK_TOP - 1

\* the first instruction word, its register nibbles, and the second operand of
\* an arithmetic instruction: the word at the effective address in the r,adr
\* form, register r2 in the r1,r2 form
FirstWord == memGet(vm.start.memory, vm.start.state[PC])
FirstGr == (FirstWord \div 16) % 16
FirstXr == FirstWord % 16
FirstOperand ==
    IF FirstOpcode \in {36, 37} THEN Reg(vm.start.state, FirstXr)
    ELSE memGet(vm.start.memory, FirstEffectiveAddress)

\* ADDA or SUBA on registers GR0..GR7 has been executed
AddaSubaDone ==
    /\ vm.call = "stepExec" /\ vm.steps = 1
    /\ FirstOpcode \in {32, 33, 36, 37}
    /\ FirstGr <= 7
    /\ FirstOpcode \in {36, 37} => FirstXr <= 7

\* C20: ADDA and SUBA, in the r,adr and the r1,r2 form, add or subtract the
\* two operands as signed 16-bit numbers: the register receives the result
\* masked to 16 bits, ZERO and SIGN come from the masked result, and OVERFLOW
\* is set exactly when the signed result is outside -32768..32767.
C20_SignedAddSub ==
    AddaSubaDone =>
        LET x == signed(Reg(vm.start.state, FirstGr))
            y == signed(FirstOperand)
            v == IF FirstOpcode \in {32, 36} THEN x + y ELSE x - y
        IN  /\ vm.kind = "Continue"
            /\ Reg(vm.state, FirstGr) = Mask16(v)
            /\ vm.state[FR] = getFlag(Mask16(v)) + (IF v > 32767 \/ v < -32768 THEN FR_OVER ELSE 0)

\* the first call has executed an instruction with one of these opcodes on
\* registers GR0..GR7 (the r1,r2 opcodes are 36..39, 44..47)
FirstDone(ops) ==
    /\ vm.call = "stepExec" /\ vm.steps = 1
    /\ FirstOpcode \in ops
    /\ FirstGr <= 7
    /\ FirstOpcode \in (36..39) \cup (44..47) => FirstXr <= 7

\* the second operand of DIVA and DIVL: register r2 in the r1,r2 form
Divisor ==
    IF FirstOpcode \in {45, 47} THEN Reg(vm.start.state, FirstXr)
    ELSE memGet(vm.start.memory, FirstEffectiveAddress)

\* C21: DIVA and DIVL with a zero divisor, in the r,adr and the r1,r2 form and
\* for every dividend, set FR to OVERFLOW|ZERO (5), leave the dividend
\* register unchanged, move PC to the next instruction and return Continue.
C21_DivideByZero ==
    (FirstDone({41, 43, 45, 47}) /\ Divisor = 0) =>
        /\ vm.kind = "Continue"
        /\ vm.state[FR] = 5
        /\ Reg(vm.state, FirstGr) = Reg(vm.start.state, FirstGr)
        /\ vm.state[PC] = vm.start.state[PC] + (IF FirstOpcode \in {41, 43} THEN 2 ELSE 1)

\* bit k of a 16-bit word
Bit(x, k) == (x \div Pow2(k)) % 2

\* the value register r had before the first call
FirstValue == Reg(vm.start.state, FirstGr)

\* C22: SLA r,n keeps the sign bit: for every 16-bit register value and every
\* shift count n in 1..15, bit 15 of the result is bit 15 of the original
\* value, and OVERFLOW is the last bit shifted out of bit 14, that is bit
\* 15-n of the original value.
C22_SlaKeepsSign ==
    (FirstDone({80}) /\ FirstEffectiveAddress \in 1..15) =>
        /\ vm.kind = "Continue"
        /\ Bit(Reg(vm.state, FirstGr), 15) = Bit(FirstValue, 15)
        /\ (BitAnd(vm.state[FR], FR_OVER) # 0) <=> (Bit(FirstValue, 15 - FirstEffectiveAddress) = 1)

\* C23: SRA r,n and SRL r,n, for every 16-bit register value and every shift
\* count n in 1..15, return Continue, set OVERFLOW to the last bit shifted
\* out of bit 0 (bit n-1 of the original value), and fill the vacated high
\* bits with the sign bit (SRA) or with zeros (SRL).
C23_ShiftRight ==
    (FirstDone({81, 83}) /\ FirstEffectiveAddress \in 1..15) =>
        LET n == FirstEffectiveAddress
        IN  /\ vm.kind = "Continue"
            /\ (BitAnd(vm.state[FR], FR_OVER) # 0) <=> (Bit(FirstValue, n - 1) = 1)
            /\ Reg(vm.state, FirstGr) =
                  IF FirstOpcode = 81 THEN Mask16(signed(FirstValue) \div Pow2(n))
                  ELSE FirstValue \div Pow2(n)

\* the first call has executed PUSH (112) or CALL (128)
PushOrCallDone == vm.call = "stepExec" /\ vm.steps = 1 /\ FirstOpcode \in {112, 128}

\* C24: PUSH and CALL end with StackOverflow exactly when SP - 1 <= addressMax;
\* otherwise they store the effective address (PUSH) or PC+2 (CALL) at the new
\* SP, decrement SP by one, and set PC to PC+2 (PUSH) or to the effective
\* address (CALL).
C24_PushCallOverflow ==
    PushOrCallDone =>
        LET sp == vm.start.state[SP]
            pc == vm.start.state[PC]
        IN  /\ (vm.kind = "StackOverflow") <=> (sp - 1 <= vm.amax)
            /\ (vm.kind # "StackOverflow") =>
                  /\ vm.kind = "Continue"
                  /\ vm.state[SP] = sp - 1
                  /\ memGet(vm.memory, sp - 1) =
                        IF FirstOpcode = 112 THEN FirstEffectiveAddress ELSE pc + 2
                  /\ vm.state[PC] =
                        IF FirstOpcode = 112 THEN pc + 2 ELSE FirstEffectiveAddress

\* a PUSH whose decremented SP is exactly addressMax has reported the overflow
C24_Witness ==
    /\ PushOrCallDone /\ FirstOpcode = 112
    /\ vm.start.state[SP] - 1 = vm.amax
    /\ vm.kind = "StackOverflow"

\* the first call has executed RET (129)
RetDone == vm.call = "stepExec" /\ vm.steps = 1 /\ FirstOpcode = 129

\* the first call has executed a CALL whose target holds a RET, and the
\* second call has executed that RET
CallRetDone ==
    /\ vm.call = "stepExec" /\ vm.steps = 2 /\ FirstOpcode = 128
    /\ memGet(vm.start.memory, FirstEffectiveAddress) \div 256 = 129

\* C25: RET ends with ProgramFinished exactly when the stack is empty (SP =
\* STACK_TOP before the RET) and then leaves PC at the RET word; otherwise it
\* sets PC to the word at SP, increments SP and continues, so that a CALL
\* followed by the callee's RET resumes at the instruction after the CALL with
\* SP restored.
C25_RetFinishesOrReturns ==
    /\ RetDone =>
          LET sp == vm.start.state[SP]
          IN  /\ (vm.kind = "ProgramFinished") <=> (sp = STACK_TOP)
              /\ (vm.kind = "ProgramFinished") => vm.state[PC] = vm.start.state[PC]
              /\ (vm.kind # "ProgramFinished") =>
                    /\ vm.kind = "Continue"
                    /\ vm.state[PC] = memGet(vm.start.memory, sp)
                    /\ vm.state[SP] = sp + 1
    /\ CallRetDone =>
          /\ vm.kind = "Continue"
          /\ vm.state[PC] = vm.start.state[PC] + 2
          /\ vm.state[SP] = vm.start.state[SP]

\* CALL 16 with a RET at address 16 has come back to address 2
C25_Witness ==
    /\ CallRetDone
    /\ FirstEffectiveAddress = 16
    /\ vm.state[PC] = 2
    /\ vm.kind = "Continue"

(***************************************************************************)
(* Properties of the assembler.                                             *)
(***************************************************************************)
\* assemble has been called and has returned an image
Assembled == asmCall # <<>> /\ asmCall.called /\ asmCall.result.ok

\* what ParseLine makes of each line of the source
Parsed == [i \in 1..Len(asmCall.source) |-> ParseLine(asmCall.source[i])]

\* the addresses pass1 emitted
Emitted == DOMAIN asmCall.result.asmState.memory

\* the addresses whose word comes from line i of the source
EmittedBy(i) == {a \in Emitted : asmCall.result.asmState.memory[a].Line = i}

RECURSIVE SumOf(_)
SumOf(ns) == IF ns = <<>> THEN 0 ELSE Head(ns) + SumOf(Tail(ns))

\* the number of words a line of a source without literals stands for: one
\* for an instruction word, one more for an address operand, the words of
\* DS and DC (a string with the 0 that ends it), 12, 14 and 7 for the macros
WordCount(ln) ==
    LET type == IF ln.inst = "" THEN "" ELSE CASL2TBL[ln.inst][2]
    IN  CASE type \in {"op1", "op2"} -> 2
          [] type \in {"op3", "op4"} -> 1
          [] type = "op5" -> IF ln.opr[2].t = "reg" THEN 1 ELSE 2
          [] type = "ds" -> ln.opr[1].v
          [] type = "dc" ->
                 SumOf([k \in 1..Len(ln.opr) |->
                          IF ln.opr[k].t = "str" THEN Len(ln.opr[k].chars) + 1 ELSE 1])
          [] type \in {"in", "out"} -> 12
          [] type = "rpush" -> 14
          [] type = "rpop" -> 7
          [] OTHER -> 0

\* C26: after pass 1 of a program that assembles, the emitted addresses are
\* exactly 0 .. addressMax-1, with no gap and no address written by two
\* source items (every line owns as many addresses as it has words, in the
\* order of the lines), and pass 2 returns an image of addressMax words.
C26_AddressesContiguous ==
    Assembled =>
        /\ Emitted = 0..(asmCall.result.addressMax - 1)
        /\ \A i \in 1..Len(asmCall.source) :
              Cardinality(EmittedBy(i)) = WordCount(Parsed[i])
        /\ \A a, b \in Emitted :
              a < b => asmCall.result.asmState.memory[a].Line
                          <= asmCall.result.asmState.memory[b].Line
        /\ Len(asmCall.result.comet2bin) = asmCall.result.addressMax

\* IN BUF,LEN / BUF DS 2 / LEN DC 3 has assembled to 15 words
C26_Witness ==
    /\ Assembled
    /\ Len(asmCall.source) = 5
    /\ Parsed[2].inst = "IN" /\ Parsed[3].inst = "DS"
    /\ Parsed[4].inst = "DC" /\ Parsed[4].label = "LEN"
    /\ asmCall.result.addressMax = 15

\* the source has an operand that is a literal
HasLiteral(source) ==
    \E i \in 1..Len(source) : \E k \in 1..Len(source[i].toks) : source[i].toks[k].t = "lit"

\* the source with the address 0 in the place of every literal
WithoutLiterals(source) ==
    [i \in 1..Len(source) |->
        [source[i] EXCEPT !.toks = [k \in 1..Len(@) |-> IF @[k].t = "lit" THEN Num(0) ELSE @[k]]]]

\* the first word a literal stands for
LiteralValue(tok) == IF tok.t = "str" THEN Head(tok.chars) ELSE Mask16(tok.v)

\* the line of the first END of the source
FirstEnd(source) == CHOOSE i \in 1..Len(source) :
                        /\ ParseLine(source[i]).inst = "END"
                        /\ \A j \in 1..(i - 1) : ParseLine(source[j]).inst # "END"

\* C27: a section that references a literal =v (decimal, hex or string)
\* assembles: END binds the literal's symbol to the cursor and emits its
\* value there, so the literal lies after every word of the section's
\* instructions, and the image word at its address is v.
C27_LiteralAssembles ==
    (asmCall.called /\ HasLiteral(asmCall.source)
       /\ assembleSource(WithoutLiterals(asmCall.source)).ok) =>
        /\ asmCall.result.ok
        /\ LET s == asmCall.result.asmState
           IN  \A k \in 1..Len(s.literalStack) :
                  LET lit == s.literalStack[k]
                      a   == s.symtbl[lit].Val.v
                  IN  /\ \A b \in Emitted :
                            s.memory[b].Line < FirstEnd(asmCall.source) => b < a
                      /\ asmCall.result.comet2bin[a + 1] = LiteralValue(lit.of.of)

\* the words of the image that come from line i of the source, in order
WordsOf(i) ==
    LET first == CHOOSE a \in EmittedBy(i) : \A b \in EmittedBy(i) : a <= b
    IN  [k \in 1..Cardinality(EmittedBy(i)) |-> asmCall.result.comet2bin[first + k]]

\* the address of a label of section MAIN
AddressOf(name) == asmCall.result.asmState.symtbl[Scoped("MAIN", Lbl(name))].Val.v

\* the lines of the source with one of these instructions
LinesWith(insts) == {i \in 1..Len(asmCall.source) : Parsed[i].inst \in insts}

\* the source defines the buffer and the length of its IN and OUT
BufferDefined ==
    {Scoped("MAIN", Lbl("BUF")), Scoped("MAIN", Lbl("LEN"))}
        \subseteq DOMAIN asmCall.result.asmState.symtbl

\* C28: IN buf,len and OUT buf,len assemble to exactly 12 words that encode,
\* in order, PUSH 0,GR1; PUSH 0,GR2; LAD GR1,buf; LAD GR2,len; SVC 0xFFF0 (IN)
\* or SVC 0xFFF2 (OUT); POP GR2; POP GR1, so that the SVC finds the buffer
\* address in GR1 and the length address in GR2 and GR1, GR2 are restored.
C28_InOutExpansion ==
    (Assembled /\ BufferDefined) =>
        \A i \in LinesWith({"IN", "OUT"}) :
            WordsOf(i) = << 7 * 4096 + 1, 0, 7 * 4096 + 2, 0,
                            18 * 256 + 16, AddressOf("BUF"), 18 * 256 + 32, AddressOf("LEN"),
                            240 * 256, IF Parsed[i].inst = "IN" THEN SYS_IN ELSE SYS_OUT,
                            113 * 256 + 32, 113 * 256 + 16 >>

\* C29: RPUSH assembles to exactly 14 words, PUSH 0,GR1 .. PUSH 0,GR7 in
\* this order: word 2k-1 is 0x7000 + k and word 2k is the address 0.
C29_RpushExpansion ==
    Assembled =>
        \A i \in LinesWith({"RPUSH"}) :
            WordsOf(i) = [w \in 1..14 |-> IF w % 2 = 1 THEN 7 * 4096 + (w + 1) \div 2 ELSE 0]

\* n calls of stepExec, stopping at the first that does not continue
RECURSIVE RunSteps(_, _, _, _)
RunSteps(mem, st, amax, n) ==
    IF n = 0 THEN Outcome("Continue", st, mem)
    ELSE LET r == stepExec(mem, st, amax)
         IN  IF r.kind # "Continue" THEN r
             ELSE RunSteps(r.memory, r.state, amax, n - 1)

\* a machine about to execute line i of the assembled image, GRk holding k + 1
AtLine(i) ==
    [k \in 0..10 |->
        IF k = PC THEN CHOOSE a \in EmittedBy(i) : \A b \in EmittedBy(i) : a <= b
        ELSE IF k = SP THEN STACK_TOP
        ELSE IF k = FR THEN 0
        ELSE k - GR0 + 1]

\* the machine after the n instructions that follow the start of line i
AfterLine(i, n) ==
    RunSteps(LoadImage(asmCall.result.comet2bin), AtLine(i), asmCall.result.addressMax, n)

\* C30: RPOP assembles to exactly 7 words, POP GR7 .. POP GR1 in this order
\* (word j is 0x7100 + 16 * (8 - j)), and executing an RPUSH and the RPOP
\* that follows it leaves GR0..GR7 and SP as they were before the RPUSH.
C30_RpopExpansion ==
    Assembled =>
        \A i \in LinesWith({"RPOP"}) :
            /\ WordsOf(i) = [j \in 1..7 |-> 113 * 256 + 16 * (8 - j)]
            /\ (i > 1 /\ Parsed[i - 1].inst = "RPUSH") =>
                  LET r == AfterLine(i - 1, 14)
                  IN  /\ r.kind = "Continue"
                      /\ \A k \in 0..7 : Reg(r.state, k) = Reg(AtLine(i - 1), k)
                      /\ r.state[SP] = STACK_TOP

\* the lines that parse and carry a label
LabelLines == {i \in 1..Len(asmCall.source) : Parsed[i].err = "" /\ Parsed[i].label # ""}

\* the section a line lies in: the label of the last START at or before it
SectionOf(i) ==
    LET starts == {j \in 1..i : Parsed[j].inst = "START"}
    IN  IF starts = {} THEN ""
        ELSE Parsed[CHOOSE j \in starts : \A k \in starts : k <= j].label

\* line i defines a label that an earlier line of its section defines
Duplicate(i) ==
    /\ i \in LabelLines
    /\ \E j \in LabelLines : /\ j < i
                             /\ Parsed[j].label = Parsed[i].label
                             /\ SectionOf(j) = SectionOf(i)

\* the address of the first word of line i: the words of the lines before it
AddressAt(i) == Cardinality({a \in Emitted : asmCall.result.asmState.memory[a].Line < i})

\* C31: a label defined twice in one START/END section fails with the
\* duplicate-label error (when no earlier line failed); a source without such
\* a pair never gets that error, and in a program that assembles every label
\* has its own key scope:label bound to the address of its line, so the same
\* name in two sections gives two keys.
C31_SymbolUniqueness ==
    asmCall.called =>
        LET dups == {i \in 1..Len(asmCall.source) : Duplicate(i)}
            d    == CHOOSE i \in dups : \A j \in dups : i <= j
        IN  /\ dups # {} =>
                 /\ ~asmCall.result.ok
                 /\ Pass1Lines(newAssemblerState, SubSeq(asmCall.source, 1, d - 1), 1).err = ""
                       => /\ asmCall.result.err = "Label has already defined"
                          /\ asmCall.result.asmState.line = d
            /\ dups = {} => asmCall.result.err # "Label has already defined"
            /\ asmCall.result.ok =>
                 \A i \in LabelLines :
                    Parsed[i].inst # "START" =>
                       LET key == Scoped(SectionOf(i), Lbl(Parsed[i].label))
                       IN  /\ key \in DOMAIN asmCall.result.asmState.symtbl
                           /\ asmCall.result.asmState.symtbl[key].Val.v = AddressAt(i)

\* a program with L in both sections has assembled, with two addresses
C31_Witness ==
    /\ asmCall.called
    /\ asmCall.result.ok
    /\ \E i, j \in LabelLines :
          /\ Parsed[i].label = "L" /\ Parsed[j].label = "L"
          /\ SectionOf(i) = "MAIN" /\ SectionOf(j) = "SUB"
    /\ asmCall.result.asmState.symtbl[Scoped("MAIN", Lbl("L"))].Val.v
          # asmCall.result.asmState.symtbl[Scoped("SUB", Lbl("L"))].Val.v

\* the lines of section S, its START excluded, that define label x
DefinedIn(S, x) ==
    {k \in LabelLines : Parsed[k].inst # "START" /\ SectionOf(k) = S /\ Parsed[k].label = x}

\* the START lines that open a section called x
StartsOf(x) == {j \in LabelLines : Parsed[j].inst = "START" /\ Parsed[j].label = x}

\* the START line names an entry label that its section does not define
EntryMissing(j) ==
    /\ Parsed[j].opr # <<>>
    /\ DefinedIn(Parsed[j].label, Parsed[j].opr[1].name) = {}

\* the entry point of the section START line j opens: the address of the
\* entry label when START names one, the address of the START otherwise
EntryOf(j) ==
    IF Parsed[j].opr = <<>> THEN AddressAt(j)
    ELSE AddressAt(CHOOSE k \in DefinedIn(Parsed[j].label, Parsed[j].opr[1].name) : TRUE)

\* the second word of the instruction of line i, in the image and in pass 1
AddressWord(i) == asmCall.result.comet2bin[AddressAt(i) + 2]
AddressEntry(i) == asmCall.result.asmState.memory[AddressAt(i) + 1].Val

\* the symbols of section S alone
OwnSymbols(S) ==
    LET symtbl == asmCall.result.asmState.symtbl
    IN  [k \in {q \in DOMAIN symtbl : q.t = "sym" /\ q.scope = S} |-> symtbl[k]]

\* the lines whose instruction takes an address, with a label there
CallLines == {i \in 1..Len(asmCall.source) :
                 Parsed[i].inst = "CALL" /\ Parsed[i].opr[1].t = "label"}
LadLines == {i \in 1..Len(asmCall.source) :
                /\ Parsed[i].inst \in {"LAD", "LD", "ST"}
                /\ Len(Parsed[i].opr) >= 2 /\ Parsed[i].opr[2].t = "label"}

\* C32: in a program that assembles, the operand of a CALL is the address of
\* the label of that name in the CALL's section when the section defines
\* one, and otherwise the entry point of the section of that name (the
\* address of the entry label its START names, else of the START); the
\* address word of another instruction is what the symbols of its own
\* section alone give.  A CALL of the name of its own section is left out.
C32_CallResolution ==
    Assembled =>
        /\ \A i \in CallLines :
              LET x == Parsed[i].opr[1].name
                  local == DefinedIn(SectionOf(i), x)
              IN  IF local # {} THEN \A k \in local : AddressWord(i) = AddressAt(k)
                  ELSE x # SectionOf(i) =>
                          \A j \in StartsOf(x) : ~EntryMissing(j) => AddressWord(i) = EntryOf(j)
        /\ \A i \in LadLines :
              AddressWord(i) = expandLabel(OwnSymbols(SectionOf(i)), AddressEntry(i))

\* the labels line i refers to as addresses: the identifiers among the
\* operands of an instruction other than START, DS and DC
ReferencedBy(i) ==
    IF Parsed[i].err # "" \/ Parsed[i].inst \in {"", "START", "DS", "DC"} THEN {}
    ELSE {Parsed[i].opr[k].name :
             k \in {q \in 1..Len(Parsed[i].opr) : Parsed[i].opr[q].t = "label"}}

\* label x may be resolved from line i: its section defines it, or it is
\* the section's own name, or line i is a CALL and x names a section
Resolvable(i, x) ==
    \/ DefinedIn(SectionOf(i), x) # {}
    \/ x = SectionOf(i)
    \/ Parsed[i].inst = "CALL" /\ StartsOf(x) # {}

\* C33: a program that refers to a label defined nowhere it may be resolved
\* does not assemble: assemble returns an error and no image.
C33_UndefinedLabelFails ==
    asmCall.called =>
        ((\E i \in 1..Len(asmCall.source) : \E x \in ReferencedBy(i) : ~Resolvable(i, x))
            => (~asmCall.result.ok /\ asmCall.result.comet2bin = <<>>))

\* the instruction field of line i is an identifier that is no mnemonic:
\* the first identifier of a line with leading whitespace, or the identifier
\* after the label of a line without
UnknownMnemonic(i) ==
    LET toks == asmCall.source[i].toks
        id(k) == k <= Len(toks) /\ toks[k].t = "label"
    IN  IF asmCall.source[i].lead
        THEN id(1) /\ ~isInstruction(toks[1])
        ELSE id(1) /\ ~isInstruction(toks[1]) /\ id(2) /\ ~isInstruction(toks[2])

\* C34: a line whose instruction field is an unknown identifier, after
\* leading whitespace or after a label, is rejected: when no earlier line
\* failed, assemble fails with an error at that line; the line is never
\* taken as a label-only line.
C34_UnknownMnemonicRejected ==
    asmCall.called =>
        \A i \in 1..Len(asmCall.source) :
            (/\ UnknownMnemonic(i)
             /\ Pass1Lines(newAssemblerState, SubSeq(asmCall.source, 1, i - 1), 1).err = "")
                => /\ ~asmCall.result.ok
                   /\ asmCall.result.asmState.line = i
                   /\ asmCall.result.err \in {"Syntax error", "Illegal instruction"}

\* the operands of line i are registers where a register is written and a
\* number where the address is
RegistersAndNumbers(i) ==
    LET opr == Parsed[i].opr
        type == CASL2TBL[Parsed[i].inst][2]
        reg(k) == opr[k].t = "reg"
        num(k) == opr[k].t \in {"num", "hex"}
    IN  CASE type \in {"op1", "op5"} ->
                 /\ Len(opr) \in {2, 3} /\ reg(1) /\ (num(2) \/ (type = "op5" /\ reg(2)))
                 /\ Len(opr) = 3 => (reg(3) /\ num(2))
          [] type = "op2" -> Len(opr) \in {1, 2} /\ num(1) /\ (Len(opr) = 2 => reg(2))
          [] type = "op3" -> Len(opr) = 1 /\ reg(1)
          [] type = "op4" -> opr = <<>>
          [] OTHER -> FALSE

\* the lines with a machine instruction written with registers and numbers
MachineLines ==
    {i \in 1..Len(asmCall.source) :
        /\ Parsed[i].err = "" /\ Parsed[i].inst \in MachineMnemonics
        /\ RegistersAndNumbers(i)}

\* what line i was written as: mnemonic, shape, words, r1, r2 or x, address
WrittenAs(i) ==
    LET opr == Parsed[i].opr
        type == CASL2TBL[Parsed[i].inst][2]
        regReg == type = "op5" /\ opr[2].t = "reg"
        shape == IF regReg THEN "op5" ELSE IF type = "op5" THEN "op1" ELSE type
        index(k) == IF Len(opr) >= k THEN opr[k].n ELSE 0
    IN  [ inst |-> Parsed[i].inst,
          type |-> shape,
          size |-> IF shape \in {"op1", "op2"} THEN 2 ELSE 1,
          gr |-> IF shape \in {"op1", "op5", "op3"} THEN opr[1].n ELSE 0,
          xr |-> CASE shape = "op5" -> opr[2].n
                   [] shape = "op1" -> index(3)
                   [] shape = "op2" -> index(2)
                   [] OTHER -> 0,
          adr |-> CASE shape = "op1" -> Mask16(opr[2].v)
                    [] shape = "op2" -> Mask16(opr[1].v)
                    [] OTHER -> -1 ]

\* what the decoder makes of the words of line i
Decoded(i) ==
    LET p == parse(LoadImage(asmCall.result.comet2bin), AddressAt(i))
    IN  [ inst |-> p.inst, type |-> p.type, size |-> p.size, gr |-> p.gr, xr |-> p.xr,
          adr |-> IF p.size = 2 THEN p.adr ELSE -1 ]

\* C35: in a program that assembles, the words of every machine instruction
\* written with registers GR0..GR7 (index GR1..GR7) and a numeric address
\* decode through the opcode map to the mnemonic, shape, word count, r1 and
\* r2/x (and address) the line was written with; the line owns as many
\* words as the decoder counts.
C35_EncodingRoundTrip ==
    Assembled =>
        \A i \in MachineLines :
            /\ Decoded(i) = WrittenAs(i)
            /\ Cardinality(EmittedBy(i)) = Decoded(i).size

\* OR GR3,GR5 has assembled
C35_Witness ==
    /\ Assembled
    /\ Len(asmCall.source) = 3
    /\ 2 \in MachineLines
    /\ Parsed[2].inst = "OR" /\ Parsed[2].opr = <<GR(3), GR(5)>>
    /\ asmCall.result.comet2bin = <<53 * 256 + 3 * 16 + 5>>

\* the literals the lines before line e refer to, in the order of the lines
RECURSIVE LiteralsBefore(_, _)
LiteralsBefore(source, e) ==
    IF e <= 1 THEN <<>>
    ELSE LiteralsBefore(source, e - 1)
            \o SelectSeq(ParseLine(source[e - 1]).opr, LAMBDA tok : tok.t = "lit")

\* the words a literal stands for: one, or the characters of a string and a 0
LiteralWords(lit) == IF lit.of.t = "str" THEN Len(lit.of.chars) + 1 ELSE 1

\* the source has an END, and pass 1 runs without error up to it
ReachesEnd(source) ==
    /\ \E i \in 1..Len(source) : ParseLine(source[i]).inst = "END"
    /\ Pass1Lines(newAssemblerState, SubSeq(source, 1, FirstEnd(source) - 1), 1).err = ""

\* C36: the END of a section empties the pending literal queue after it has
\* emitted each literal of the section once, at an address of the section's
\* pool its symbol is bound to: after the first END the queue is empty, the
\* END line owns exactly the words of the section's literals, and every
\* literal symbol is bound to a word of that END line; a later END leaves
\* these symbols and words alone.
C36_LiteralPoolPerSection ==
    (asmCall.called /\ HasLiteral(asmCall.source) /\ ReachesEnd(asmCall.source)) =>
        LET e    == FirstEnd(asmCall.source)
            lits == LiteralsBefore(asmCall.source, e)
            s1   == Pass1Lines(newAssemblerState, SubSeq(asmCall.source, 1, e), 1)
            s    == asmCall.result.asmState
            keys(st) == {q \in DOMAIN st.symtbl : q.t = "suffixed"}
        IN  lits # <<>> =>
               /\ s1.literalStack = <<>>
               /\ Cardinality({a \in DOMAIN s1.memory : s1.memory[a].Line = e})
                     = SumOf([k \in 1..Len(lits) |-> LiteralWords(lits[k])])
               /\ Cardinality(keys(s1)) = Len(lits)
               /\ \A q \in keys(s1) :
                     /\ s1.symtbl[q].Val.v \in DOMAIN s1.memory
                     /\ s1.memory[s1.symtbl[q].Val.v].Line = e
                     /\ q \in DOMAIN s.symtbl /\ s.symtbl[q] = s1.symtbl[q]
                     /\ s.memory[s1.symtbl[q].Val.v] = s1.memory[s1.symtbl[q].Val.v]

\* C37: after any number of steps every general register, PC and SP holds a
\* value in 0..0xFFFF and FR a value in 0..7, whatever the instructions were
\* (DIVA and DIVL by zero included).
C37_RegisterRange ==
    (vm # <<>> /\ vm.call = "stepExec" /\ vm.kind # "Panic") =>
        /\ \A r \in 0..7 : Reg(vm.state, r) \in 0..65535
        /\ vm.state[PC] \in 0..65535
        /\ vm.state[SP] \in 0..65535
        /\ vm.state[FR] \in 0..7

\* the opcode byte of the instruction at PC
OpcodeAtPC == memGet(vm.memory, vm.state[PC]) \div 256

\* C38: with address_max < STACK_TOP, a step that returns Continue or
\* AwaitInput leaves address_max < SP <= STACK_TOP; PUSH and CALL take one
\* from SP, POP and RET add one to it, and no other instruction changes it.
C38_StackPointer ==
    [][(/\ vm # <<>> /\ vm.call = "stepExec"
        /\ vm.amax < STACK_TOP
        /\ vm'.kind \in {"Continue", "AwaitInput"})
          => /\ vm.amax < vm'.state[SP] /\ vm'.state[SP] <= STACK_TOP
             /\ vm'.state[SP] = vm.state[SP] + (CASE OpcodeAtPC \in {112, 128} -> -1
                                                  [] OpcodeAtPC \in {113, 129} -> 1
                                                  [] OTHER -> 0)]_vars

\* CALL from the empty stack has left SP one below STACK_TOP, above address_max
C38_Witness ==
    /\ vm # <<>> /\ vm.call = "stepExec" /\ vm.steps = 1 /\ vm.kind = "Continue"
    /\ FirstOpcode = 128
    /\ vm.start.state[SP] = STACK_TOP
    /\ vm.state[SP] = STACK_TOP - 1
    /\ vm.amax < vm.state[SP]

\* C39: a step that returns StackOverflow, StackUnderflow, IllegalInstruction
\* or ProgramFinished leaves PC, SP, FR, every general register and the
\* memory as they were before the step.
C39_TerminationKeepsState ==
    [][(/\ vm # <<>> /\ vm.call = "stepExec"
        /\ vm'.kind \in {"StackOverflow", "StackUnderflow", "IllegalInstruction",
                         "ProgramFinished"})
          => (vm'.state = vm.state /\ vm'.memory = vm.memory)]_vars

\* the step of goroutine t as it is when only this session's program sets
\* the stack limit
StepResultAlone(t) ==
    IF thr[t].old = <<>>
    THEN StepExecFrom(memory, state, assemble(asmState).addressMax,
                      thr[t].snap[1], thr[t].snap[2], thr[t].snap[3])
    ELSE StepExecFrom(thr[t].old[1], thr[t].old[2], assemble(asmState).addressMax,
                      thr[t].snap[1], thr[t].snap[2], thr[t].snap[3])

\* C40: the outcome of every step of a session is the outcome its own
\* program and requests give: whatever another connection has launched, a
\* step about to return returns what it returns with the stack limit of the
\* session's own program.
C40_SessionsIndependent ==
    \A t \in Goroutines :
        (thr[t].pc = "inStep" /\ asmState # "nil") => StepResult(t) = StepResultAlone(t)

=============================================================================
